---- MODULE Spec2Model ----
(***************************************************************************)
(* A model of agentapi's OpenCode integration.                             *)
(*                                                                         *)
(*   Spec        opencode.Conversation (lib/opencode/conversation.go) and  *)
(*               the OpenCodeServer handlers that call it                  *)
(*               (lib/httpapi/opencode_server.go).                         *)
(*   FairSpec    the same, with the fairness of the Go scheduler for the   *)
(*               background goroutine sendMessageAsync.                    *)
(*   ServerSpec  the Server of lib/httpapi/server.go with agentType        *)
(*               opencode and its OpencodeClient (lib/httpapi/opencode.go) *)
(*               under concurrent HTTP requests.                           *)
(*   ClientSpec  the OpencodeClient with goroutines that call its exported *)
(*               methods directly, no Server.mu around the calls.          *)
(*   HistorySpec a process with the one message list or the other: the     *)
(*               runs of Spec and the runs of ClientSpec.                  *)
(*   EmitterSpec the OpenCodeServer with its polling loop, its event       *)
(*               emitter and its /events handlers. The emitter's code is   *)
(*               not in the sources: its operations follow section 4.2 of  *)
(*               the specification.                                        *)
(*   SetupSpec   Spec for every answer of the backend to GetProviders in   *)
(*               NewConversation.                                          *)
(*   CopySpec    HistorySpec with callers that write to the list that      *)
(*               Messages() returned.                                      *)
(*   StreamSpec  EmitterSpec with the /internal/screen handler beside the  *)
(*               /events handler.                                          *)
(*   RegistrySpec the emitter's registry under further Unsubscribe calls.  *)
(*   DegradedSpec the Server started without an OpencodeClient.            *)
(*   TrackerSpec the conversation tracker of the terminal agents with its  *)
(*               screen source and clock; FormatSpec its formatMessage on  *)
(*               bounded screens.  Their code is not in the sources: they  *)
(*               follow section 4.1 of the specification.                  *)
(*   ServiceSpec the Service of lib/opencode: the process it starts, the   *)
(*               wait of Client.WaitForReady, and Stop.                    *)
(*   FairServerSpec, FairEmitterSpec, FairServiceSpec: ServerSpec,         *)
(*               EmitterSpec and ServiceSpec with the fairness of the Go   *)
(*               scheduler for the goroutines named there.                 *)
(*                                                                         *)
(* One action is one critical section of the code (the statements between  *)
(* a Lock and its Unlock) or one call the code makes without a lock held.  *)
(* The Time field of a message (time.Now()) is left out: nothing below     *)
(* reads it.                                                               *)
(***************************************************************************)
EXTENDS Integers, Sequences, FiniteSets, TLC

\* The longest message list the model builds.
MaxMessages == 4

\* screentracker.ConversationStatus and ConversationRole
ConversationStatusStable == "stable"
ConversationStatusChanging == "changing"
ConversationRoleUser == "user"
ConversationRoleAgent == "agent"

\* The errors Conversation.SendMessage returns (nil is "nil").
ErrNil == "nil"
ErrBusy == "agent is currently running"
ErrEmpty == "message content cannot be empty"

\* The argument lists SendMessage is called with (userInput ...string).
UserInputs ==
    { <<>>, <<"">>, <<"", "">>, <<"a">>, <<"a", "b">> }

\* The parts of a reply of the OpenCode backend (resp.Message.Parts, by Text).
ReplyParts ==
    { <<>>, <<"x", "y">>, <<"", "x">> }

\* The POST /message requests the Server model receives.
MaxPosts == 2

\* The goroutines that serve HTTP requests, and "none" for no goroutine.
Procs == { "p1", "p2" }
None == "none"

\* The bodies of POST /message.
MessageTypeUser == "user"
MessageTypeRaw == "raw"
Contents == { "", "a", "b" }

VARIABLES
    messages,     \* Conversation.messages
    status,       \* Conversation.status
    tasks,        \* the sendMessageAsync goroutines that have not returned
    requests,     \* the calls of Client.SendMessage made so far, oldest first
    sendErr,      \* what the last call of Conversation.SendMessage returned
    turns,        \* history: the accepted sends and how each ended
    resp          \* the last response of an OpenCodeServer handler

convVars == <<messages, status, tasks, requests, sendErr, turns, resp>>

\* The Server of lib/httpapi/server.go with an OpencodeClient behind it.
VARIABLES
    opencodeClient, \* Server.opencodeClient is not nil
    smu,            \* Server.mu: its writer and its readers
    ocmu,           \* OpencodeClient.mu: its writer (no reader keeps it across a step)
    ocMessages,     \* OpencodeClient.messages
    ocStatus,       \* OpencodeClient.status
    session,        \* the messages of the session in the opencode daemon
    pc,             \* where each request's goroutine stands
    req,            \* the request each goroutine serves
    local,          \* SendMessage's locals: userMsg.Id and the error of Chat
    hresp,          \* the last response a handler returned
    posts           \* the POST /message requests received so far

srvVars == <<opencodeClient, smu, ocmu, ocMessages, ocStatus, session,
             pc, req, local, hresp, posts>>

\* The EventEmitter of a server and the handlers of its /events clients.
VARIABLES
    emitter,      \* the emitter's last-broadcast status, messages and screen
    loop,         \* the call the polling loop of StartSnapshotLoop makes next
    chans,        \* the emitter's registry: the queue of each subscriber
    handler,      \* each subscribeEvents call: its place, stateEvents, what it sent
    tickLog,      \* history: the types of the events the emitter offered this tick
    watcher       \* history: what the client of the watched subscriber got

emVars == <<emitter, loop, chans, handler, tickLog, watcher>>

\* What lies around these: the callers of Messages, the SSE clients, the
\* setup of the Conversation, and the terminal tracker of the agents that
\* run in a terminal.
VARIABLES
    sent,         \* history: the types of the events two clients were sent
    ret,          \* the list a caller of Messages() holds
    defaults,     \* Conversation.defaultProvider and defaultModel
    tracker,      \* the terminal tracker: st.Conversation
    agentio,      \* the screen of the agent's terminal
    now,          \* the time GetTime returns
    service       \* the opencode.Service, its process and its caller's context

extVars == <<sent, ret, defaults, tracker, agentio, now, service>>

vars == <<convVars, srvVars, emVars, extVars>>

----------------------------------------------------------------------------
\* strings.Join(elems, sep)
RECURSIVE Join(_, _)
Join(elems, sep) ==
    IF Len(elems) = 0 THEN ""
    ELSE IF Len(elems) = 1 THEN elems[1]
    ELSE elems[1] \o sep \o Join(Tail(elems), sep)

\* Conversation.formatMessageParts: the parts' Text, a newline between two.
RECURSIVE formatMessageParts(_)
formatMessageParts(parts) ==
    IF Len(parts) = 0 THEN ""
    ELSE IF Len(parts) = 1 THEN parts[1]
    ELSE formatMessageParts(SubSeq(parts, 1, Len(parts) - 1))
             \o "\n" \o parts[Len(parts)]

\* st.ConversationMessage{Id: len(c.messages), Role: role, Message: content}
NewMessageIdOffByOne(msgs, role, content) ==
    [Id |-> Len(msgs) + 1, Role |-> role, Message |-> content]

NewMessage(msgs, role, content) ==
    [Id |-> Len(msgs), Role |-> role, Message |-> content]

\* if c.status == st.ConversationStatusChanging
IsBusyNever == FALSE

IsBusy == status = ConversationStatusChanging

\* The request sendMessageAsync builds for content.
SendMessageRequest(content) ==
    [ProviderID |-> defaults.provider,
     ModelID |-> defaults.model,
     Parts |-> << [Type |-> "text", Text |-> content] >>]

\* The task SendMessage starts with "go c.sendMessageAsync(content)".
SpawnNothing(n, content) == {}

SpawnTwice(n, content) ==
    { [n |-> n, content |-> content, phase |-> ph] :
        ph \in { "spawned", "requested" } }

Spawn(n, content) == { [n |-> n, content |-> content, phase |-> "spawned"] }

----------------------------------------------------------------------------
\* NewConversation: what the Conversation holds when it is returned.
ConvInit ==
    /\ messages = <<>>
    /\ status = ConversationStatusStable
    /\ tasks = {}
    /\ requests = <<>>
    /\ sendErr = "none"
    /\ turns = <<>>
    /\ resp = [op |-> "none", type |-> "none", ok |-> TRUE]

NoRequest == [kind |-> "none", content |-> "", busy |-> FALSE]
NoLocal == [id |-> 0, err |-> ErrNil, appended |-> 0]
\* NewServer with agentType opencode: NewOpencodeClient succeeded (client)
\* or failed, and then Server.opencodeClient is nil.
SrvInit(client) ==
    /\ opencodeClient = client
    /\ smu = [w |-> None, r |-> {}]
    /\ ocmu = None
    /\ ocMessages =
         IF client    \* the first message initSession appends
         THEN << [Id |-> 1, Role |-> ConversationRoleAgent,
                  Message |->
                    "Opencode session initialized. Ready for your requests."] >>
         ELSE <<>>
    /\ ocStatus = ConversationStatusStable
    /\ session = <<>>
    /\ pc = [p \in Procs |-> "idle"]
    /\ req = [p \in Procs |-> NoRequest]
    /\ local = [p \in Procs |-> NoLocal]
    /\ hresp = [proc |-> None, op |-> "none", kind |-> "none",
                err |-> ErrNil, status |-> "", messages |-> <<>>,
                busy |-> FALSE, appended |-> 0]
    /\ posts = 0

\* The longest message list of a conversation whose events are watched.
MaxWatched == 2

\* The /events clients (one subscribeEvents call each), and the capacity of a
\* subscriber's queue: NewEventEmitter(1024) in the code.
Subscribers == { "s1", "s2" }
QueueCap == 1

EventTypeStatusChange == "status_change"
EventTypeMessageUpdate == "message_update"
EventTypeScreenUpdate == "screen_update"

\* The last-broadcast state of a new emitter: nothing was broadcast yet.
Unset == "unset"
NewEventEmitter == [status |-> Unset, messages |-> <<>>, screen |-> Unset]

\* The /internal/screen clients (one subscribeScreen call each), and the
\* clients whose events are recorded in sent.
ScreenSubscribers == { "s3" }

\* The subscriber whose client is watched, and a client that got nothing yet:
\* the status and the messages it holds (the messages in the order they first
\* came), the last live event of each type it got, and whether an event for
\* it was dropped ("dropped") and one was enqueued since ("enqueued"), the
\* screen events, which subscribeEvents skips, left aside.
Watched == "s1"
NoClient ==
    [view |-> [status |-> Unset, messages |-> <<>>],
     lastLive |-> [status_change |-> {}, message_update |-> {}],
     dropped |-> "no"]

\* NewEventEmitter, and no polling loop and no /events client yet.
EmInit ==
    /\ emitter = NewEventEmitter
    /\ loop = "off"
    /\ chans = <<>>
    \* A subscribeEvents or subscribeScreen call that has not begun, with its
    \* stateEvents and the calls of Unsubscribe made with its subscriber id.
    /\ handler = [s \in Subscribers \cup ScreenSubscribers |->
                    [state |-> "none", batch |-> <<>>, unsubscribed |-> 0]]
    /\ tickLog = <<>>
    /\ watcher = NoClient

Traced == { Watched } \cup ScreenSubscribers

\* No caller of Messages() holds a list. A list a caller holds is a slice
\* with a backing array of its own, or one that shares the owner's (shared);
\* owner is the object it came from.
NoList == [held |-> FALSE, owner |-> "none", shared |-> FALSE,
           mutated |-> FALSE, list |-> <<>>]

\* The provider and the model NewConversation and setupDefaults fall back to.
FallbackDefaults == [provider |-> "mockgpt", model |-> "gpt-3.5-turbo"]

\* What GET /config/providers can answer. Absent stands for a field that is
\* missing or has another type than the one setupDefaults asserts. A
\* provider has an id and a map of models (here its keys); the answer has a
\* list of providers and, under "default", a model for the provider "p".
Absent == "(absent)"
DefaultModels == { Absent, "", "m2" }
ProviderResponses ==
    { [err |-> TRUE, providers |-> <<>>, default |-> Absent] }
    \cup { [err |-> FALSE, providers |-> <<>>, default |-> dm] :
               dm \in DefaultModels }
    \cup { [err |-> FALSE, providers |-> << [id |-> id, models |-> mm] >>,
            default |-> dm] :
               id \in { Absent, "", "p" },
               mm \in { {Absent}, {}, {"m1", "m2"}, {""} },
               dm \in DefaultModels }

\* setupDefaults up to its last check: the provider and the model after the
\* list of providers and the "default" field were read.
providerDefaults(providers) ==
    LET first == providers.providers[1]
        ids == IF providers.providers # <<>> /\ first.id # Absent
               THEN first.id ELSE ""
        ranged == IF providers.providers # <<>> /\ first.models # {Absent}
                     /\ first.models # {}
                  THEN first.models ELSE { "" }
    IN { [provider |-> ids,
          model |-> IF providers.default # Absent /\ ids = "p"
                    THEN providers.default ELSE m] : m \in ranged }

\* setupDefaults without its last check.
setupDefaultsNoFallback(providers) == providerDefaults(providers)

\* setupDefaults after GetProviders answered: the provider and the model it
\* leaves in the Conversation. The id is the first provider's; the model is
\* the key the range over its models yields first, any of them; the entry
\* of "default" for the provider replaces it; and when the provider or the
\* model is still empty, both become the fallback.
setupDefaults(providers) ==
    { IF d.provider = "" \/ d.model = "" THEN FallbackDefaults ELSE d :
          d \in providerDefaults(providers) }

\* NewConversation: the defaults when it returns. A failed GetProviders
\* makes setupDefaults return the error, and NewConversation falls back.
NewConversationDefaults(providers) ==
    IF providers.err THEN { FallbackDefaults } ELSE setupDefaults(providers)

\* NewService: no command yet. With it, what lies outside the Service: the
\* environment variable OPENCODE_MOCK_URL (mock), the process of the command,
\* whether the server answers GET /config, and the context of the caller.
NewService(mock) ==
    [pc |-> "idle", mock |-> mock, cmd |-> "nil", proc |-> "none",
     ready |-> FALSE, ctx |-> FALSE, clock |-> 0, probed |-> FALSE,
     waitErr |-> "none", inStart |-> FALSE, startRet |-> "none",
     stopRet |-> "none", interrupted |-> FALSE, killed |-> FALSE, stops |-> 0]

\* A process after its construction: with or without an OpencodeClient,
\* with the defaults d of its Conversation, the tracker tr of a terminal
\* whose screen shows text, and the Service svc.
InitWith(client, d, tr, text, svc) ==
    /\ ConvInit /\ SrvInit(client) /\ EmInit
    /\ sent = [s \in Traced |-> {}]
    /\ ret = NoList
    /\ defaults = d
    /\ tracker = tr
    /\ agentio = text
    /\ now = 0
    /\ service = svc

\* No terminal and no tracker.
NoTracker == [status |-> "none"]

Init == InitWith(FALSE, FallbackDefaults, NoTracker, "", NewService(FALSE))

\* Conversation.SendMessage(userInput...), from Lock to the deferred Unlock.
SendMessage(userInput) ==
    IF IsBusy
    THEN /\ sendErr' = ErrBusy
         /\ UNCHANGED <<messages, status, tasks, requests, turns>>
    ELSE LET content == Join(userInput, " ") IN
         IF content = ""
         THEN /\ sendErr' = ErrEmpty
              /\ UNCHANGED <<messages, status, tasks, requests, turns>>
         ELSE /\ Len(messages) < MaxMessages
              /\ status' = ConversationStatusChanging
              /\ messages' = Append(messages,
                                 NewMessage(messages, ConversationRoleUser, content))
              /\ tasks' = tasks \cup Spawn(Len(turns) + 1, content)
              /\ turns' = Append(turns, [input |-> userInput, end |-> "running",
                                         reply |-> <<>>])
              /\ sendErr' = ErrNil
              /\ UNCHANGED requests

\* A direct call of Conversation.SendMessage.
CallSendMessage ==
    \E userInput \in UserInputs :
        /\ SendMessage(userInput)
        /\ UNCHANGED <<resp, srvVars, emVars, extVars>>

\* sendMessageAsync up to c.client.SendMessage(ctx, c.sessionID, req): the
\* goroutine builds the request and issues it.
AsyncRequestEndsTurn ==
    \E t \in tasks :
        /\ t.phase = "spawned"
        /\ requests' = Append(requests, SendMessageRequest(t.content))
        /\ tasks' = (tasks \ {t}) \cup {[t EXCEPT !.phase = "requested"]}
        /\ status' = ConversationStatusStable
        /\ UNCHANGED <<messages, sendErr, turns, resp, srvVars, emVars, extVars>>

AsyncRequest ==
    \E t \in tasks :
        /\ t.phase = "spawned"
        /\ requests' = Append(requests, SendMessageRequest(t.content))
        /\ tasks' = (tasks \ {t}) \cup {[t EXCEPT !.phase = "requested"]}
        /\ UNCHANGED <<messages, status, sendErr, turns, resp, srvVars, emVars, extVars>>

\* sendMessageAsync when c.client.SendMessage returned an error.
AsyncErrorKeepsStatus(t) ==
    /\ tasks' = tasks \ {t}
    /\ turns' = [turns EXCEPT ![t.n].end = "error"]
    /\ UNCHANGED <<messages, status, requests, sendErr, resp, srvVars, emVars, extVars>>

AsyncError(t) ==
    /\ status' = ConversationStatusStable
    /\ tasks' = tasks \ {t}
    /\ turns' = [turns EXCEPT ![t.n].end = "error"]
    /\ UNCHANGED <<messages, requests, sendErr, resp, srvVars, emVars, extVars>>

\* sendMessageAsync when c.client.SendMessage returned resp with these parts.
AsyncReplyOverLast(t, parts) ==
    /\ messages' = [messages EXCEPT ![Len(messages)] =
                        [@ EXCEPT !.Role = ConversationRoleAgent,
                                  !.Message = formatMessageParts(parts)]]
    /\ status' = ConversationStatusStable
    /\ tasks' = tasks \ {t}
    /\ turns' = [turns EXCEPT ![t.n].end = "reply", ![t.n].reply = parts]
    /\ UNCHANGED <<requests, sendErr, resp, srvVars, emVars, extVars>>

AsyncReplyTwice(t, parts) ==
    /\ messages' = messages \o
         << NewMessage(messages, ConversationRoleAgent,
                       formatMessageParts(parts)),
            NewMessage(messages, ConversationRoleAgent,
                       formatMessageParts(parts)) >>
    /\ status' = ConversationStatusStable
    /\ tasks' = tasks \ {t}
    /\ turns' = [turns EXCEPT ![t.n].end = "reply", ![t.n].reply = parts]
    /\ UNCHANGED <<requests, sendErr, resp, srvVars, emVars, extVars>>

AsyncReplyAsUser(t, parts) ==
    /\ messages' = Append(messages,
                       NewMessage(messages, ConversationRoleUser,
                                  formatMessageParts(parts)))
    /\ status' = ConversationStatusStable
    /\ tasks' = tasks \ {t}
    /\ turns' = [turns EXCEPT ![t.n].end = "reply", ![t.n].reply = parts]
    /\ UNCHANGED <<requests, sendErr, resp, srvVars, emVars, extVars>>

AsyncReply(t, parts) ==
    /\ messages' = Append(messages,
                       NewMessage(messages, ConversationRoleAgent,
                                  formatMessageParts(parts)))
    /\ status' = ConversationStatusStable
    /\ tasks' = tasks \ {t}
    /\ turns' = [turns EXCEPT ![t.n].end = "reply", ![t.n].reply = parts]
    /\ UNCHANGED <<requests, sendErr, resp, srvVars, emVars, extVars>>

AsyncFail ==
    \E t \in tasks : t.phase = "requested" /\ AsyncError(t)

AsyncSucceed ==
    \E t \in tasks : \E parts \in ReplyParts :
        t.phase = "requested" /\ AsyncReply(t, parts)

\* FormatMessage(mf.AgentTypeOpenCode, content) and part.String() of each part:
\* the strings OpenCodeServer.createMessage hands to SendMessage.
FormatMessage(content) == <<content>>

\* OpenCodeServer.createMessage, from s.mu.Lock to the deferred Unlock.
createMessage(type, content) ==
    /\ \/ type = MessageTypeUser /\ SendMessage(FormatMessage(content))
       \/ type = MessageTypeRaw /\ SendMessage(<<content>>)
    /\ resp' = [op |-> "createMessage", type |-> type,
                ok |-> (sendErr' = ErrNil)]
    /\ UNCHANGED <<srvVars, emVars, extVars>>

PostMessage ==
    \E type \in {MessageTypeUser, MessageTypeRaw} : \E content \in Contents :
        createMessage(type, content)

Next ==
    \/ CallSendMessage
    \/ PostMessage
    \/ AsyncRequest
    \/ AsyncFail
    \/ AsyncSucceed

Spec == Init /\ [][Next]_vars

\* The Go scheduler runs a started goroutine, and the HTTP client of
\* Client.SendMessage gives up after its timeout: a request that was issued
\* returns, with a reply or with an error.
FairSpec ==
    /\ Spec
    /\ WF_vars(AsyncRequest)
    /\ WF_vars(AsyncFail \/ AsyncSucceed)

\* The Conversation after any answer of the backend to GET
\* /config/providers.
SetupSpec ==
    /\ \E providers \in ProviderResponses :
       \E d \in NewConversationDefaults(providers) :
           InitWith(FALSE, d, NoTracker, "", NewService(FALSE))
    /\ [][Next]_vars

----------------------------------------------------------------------------
\* The Server (agentType opencode) and its OpencodeClient.
\*
\* A goroutine at a label that ends in "lock" has called Lock or RLock and
\* has not got it yet. A read section of OpencodeClient.mu holds nothing that
\* blocks, so it is one step; SendMessage keeps the write lock of its last
\* section over time.Sleep and Session.Messages, and createMessage keeps
\* Server.mu over the whole of SendMessage.

ErrUnavailable == "opencode client unavailable"
\* The contents of the user messages posted to the Server.
OcContents == { "a", "b" }

IsPost(kind) == kind \in { "post_user", "post_raw" }

FirstLabel(kind) ==
    CASE IsPost(kind) -> "cm_lock"
      [] kind = "get_status" -> "gs_rlock"
      [] kind = "get_messages" -> "gm_rlock"
      [] kind = "oc_status" -> "ds_rlock"

\* convertStatus: the wire name of a status.
convertStatus(st) == IF st = ConversationStatusChanging THEN "running" ELSE "stable"

\* OpencodeClient.getNextMessageIDUnsafe
RECURSIVE MaxId(_)
MaxId(msgs) ==
    IF msgs = <<>> THEN 0
    ELSE LET m == MaxId(Tail(msgs)) IN
         IF Head(msgs).Id > m THEN Head(msgs).Id ELSE m

getNextMessageIDUnsafe(msgs) == MaxId(msgs) + 1

\* The agent message SendMessage appends for a failed call.
ErrorMessage(msgs, text) ==
    [Id |-> getNextMessageIDUnsafe(msgs), Role |-> ConversationRoleAgent,
     Message |-> text]

\* The responseContent SendMessage collects from one session message.
RECURSIVE responseContent(_)
responseContent(parts) ==
    IF parts = <<>> THEN ""
    ELSE (IF Head(parts).Type = "text" \/ Head(parts).Text # ""
          THEN Head(parts).Text ELSE "")
         \o responseContent(Tail(parts))

\* The loop of SendMessage over *sessionMessages.
RECURSIVE appendResponses(_, _)
appendResponses(msgs, sessionMessages) ==
    IF sessionMessages = <<>> THEN msgs
    ELSE LET m == Head(sessionMessages)
             c == responseContent(m.Parts)
         IN appendResponses(
                IF m.Role = "assistant" /\ c # ""
                THEN Append(msgs, [Id |-> getNextMessageIDUnsafe(msgs),
                                   Role |-> ConversationRoleAgent,
                                   Message |-> c])
                ELSE msgs,
                Tail(sessionMessages))

\* A handler returns: its response, and the goroutine is free again.
Respond(p, op, err, st, msgs, appended) ==
    /\ hresp' = [proc |-> p, op |-> op, kind |-> req[p].kind, err |-> err,
                 status |-> st,
                 messages |-> msgs, busy |-> req[p].busy, appended |-> appended]
    /\ pc' = [pc EXCEPT ![p] = "idle"]
    /\ req' = [req EXCEPT ![p] = NoRequest]
    /\ local' = [local EXCEPT ![p] = NoLocal]

\* A request reaches the server and its handler is called.
Receive ==
    \E p \in Procs :
    \E kind \in { "post_user", "post_raw", "get_status", "get_messages",
                 "oc_status" } :
    \E content \in (IF IsPost(kind) THEN OcContents ELSE {""}) :
        /\ pc[p] = "idle"
        /\ IsPost(kind) => posts < MaxPosts
        /\ kind = "oc_status" => opencodeClient
        /\ req' = [req EXCEPT ![p] = [kind |-> kind, content |-> content,
                                      busy |-> ocStatus # ConversationStatusStable]]
        /\ pc' = [pc EXCEPT ![p] = FirstLabel(kind)]
        /\ posts' = IF IsPost(kind) THEN posts + 1 ELSE posts
        /\ UNCHANGED <<opencodeClient, smu, ocmu, ocMessages, ocStatus, session,
                       local, hresp>>
        /\ UNCHANGED <<convVars, emVars, extVars>>

ServerCreateMessageNoMutex ==
    \E p \in Procs :
        /\ pc[p] = "cm_lock"
        /\ IF req[p].kind = "post_raw"
           THEN Respond(p, "createMessage",
                        "raw message type not supported for opencode",
                        "", <<>>, 0)
           ELSE IF ~opencodeClient
           THEN Respond(p, "createMessage", ErrUnavailable, "", <<>>, 0)
           ELSE /\ pc' = [pc EXCEPT ![p] = "oc_lock1"]
                /\ UNCHANGED <<hresp, req, local>>
        /\ UNCHANGED <<opencodeClient, smu, ocmu, ocMessages, ocStatus, session,
                       posts>>
        /\ UNCHANGED <<convVars, emVars, extVars>>

\* Server.createMessage gets s.mu: a raw message and a missing client return
\* at once, a user message enters OpencodeClient.SendMessage.
ServerCreateMessage ==
    \E p \in Procs :
        /\ pc[p] = "cm_lock"
        /\ smu.w = None /\ smu.r = {}
        /\ IF req[p].kind = "post_raw"
           THEN /\ Respond(p, "createMessage",
                           "raw message type not supported for opencode",
                           "", <<>>, 0)
                /\ UNCHANGED smu
           ELSE IF ~opencodeClient
           THEN Respond(p, "createMessage", ErrUnavailable, "", <<>>, 0) /\ UNCHANGED smu
           ELSE /\ smu' = [smu EXCEPT !.w = p]
                /\ pc' = [pc EXCEPT ![p] = "oc_lock1"]
                /\ UNCHANGED <<hresp, req, local>>
        /\ UNCHANGED <<opencodeClient, ocmu, ocMessages, ocStatus, session, posts>>
        /\ UNCHANGED <<convVars, emVars, extVars>>

\* OpencodeClient.SendMessage, first section: oc.status = changing.
SendMessageSetChanging ==
    \E p \in Procs :
        /\ pc[p] = "oc_lock1"
        /\ ocmu = None
        /\ ocStatus' = ConversationStatusChanging
        /\ pc' = [pc EXCEPT ![p] = "oc_rlock"]
        /\ UNCHANGED <<opencodeClient, smu, ocmu, ocMessages, session, req, local,
                       hresp, posts>>
        /\ UNCHANGED <<convVars, emVars, extVars>>

\* OpencodeClient.getNextMessageID, for userMsg.Id.
SendMessageNextId ==
    \E p \in Procs :
        /\ pc[p] = "oc_rlock"
        /\ ocmu = None
        /\ local' = [local EXCEPT ![p].id = getNextMessageIDUnsafe(ocMessages)]
        /\ pc' = [pc EXCEPT ![p] = "oc_lock2"]
        /\ UNCHANGED <<opencodeClient, smu, ocmu, ocMessages, ocStatus, session, req,
                       hresp, posts>>
        /\ UNCHANGED <<convVars, emVars, extVars>>

\* OpencodeClient.SendMessage, second section: the user message is appended,
\* and Session.Chat is called.
SendMessageAppendUser ==
    \E p \in Procs :
        /\ pc[p] = "oc_lock2"
        /\ ocmu = None
        /\ ocMessages' = Append(ocMessages,
                             [Id |-> local[p].id, Role |-> ConversationRoleUser,
                              Message |-> req[p].content])
        /\ local' = [local EXCEPT ![p].appended = @ + 1]
        /\ pc' = [pc EXCEPT ![p] = "oc_chat"]
        /\ UNCHANGED <<opencodeClient, smu, ocmu, ocStatus, session, req, hresp, posts>>
        /\ UNCHANGED <<convVars, emVars, extVars>>

\* Session.Chat returns: an error, or nil after the daemon has added the user
\* message and the assistant's reply to its session.
ChatReturns ==
    \E p \in Procs :
        /\ pc[p] = "oc_chat"
        /\ \/ /\ local' = [local EXCEPT ![p].err = "chat failed"]
              /\ UNCHANGED session
           \/ \E reply \in    \* the parts of the daemon's assistant message
                   { << [Type |-> "step-start", Text |-> ""] >>,
                     << [Type |-> "reasoning", Text |-> "r"],
                        [Type |-> "text", Text |-> "x"] >> } :
              /\ session' = session \o
                     << [Role |-> "user",
                         Parts |-> << [Type |-> "text", Text |-> req[p].content] >>],
                        [Role |-> "assistant", Parts |-> reply] >>
              /\ UNCHANGED local
        /\ pc' = [pc EXCEPT ![p] = "oc_lock3"]
        /\ UNCHANGED <<opencodeClient, smu, ocmu, ocMessages, ocStatus, req, hresp, posts>>
        /\ UNCHANGED <<convVars, emVars, extVars>>

\* What returns when SendMessage does: createMessage, or SendMessage itself
\* when a goroutine called the client directly.
SendOp(p) == IF req[p].kind = "oc_send" THEN "SendMessage" ELSE "createMessage"

SendMessageFailedSilently(p, text) ==
    /\ ocStatus' = ConversationStatusStable
    /\ ocMessages' = Append(ocMessages, ErrorMessage(ocMessages, text))
    /\ ocmu' = None
    /\ smu' = [smu EXCEPT !.w = None]
    /\ Respond(p, SendOp(p), ErrNil, "", <<>>, local[p].appended + 1)

\* SendMessage's two error branches: status stable, the error message
\* appended, the error returned (the deferred Unlock releases oc.mu), and
\* createMessage returns it.
SendMessageFailed(p, text) ==
    /\ ocStatus' = ConversationStatusStable
    /\ ocMessages' = Append(ocMessages, ErrorMessage(ocMessages, text))
    /\ ocmu' = None
    /\ smu' = [smu EXCEPT !.w = None]
    /\ Respond(p, SendOp(p), text, "", <<>>, local[p].appended + 1)

\* OpencodeClient.SendMessage, third section, entered after Chat: on an error
\* of Chat it returns; else it keeps oc.mu, sleeps and calls Session.Messages.
SendMessageAfterChat ==
    \E p \in Procs :
        /\ pc[p] = "oc_lock3"
        /\ ocmu = None
        /\ IF local[p].err # ErrNil
           THEN SendMessageFailed(p, "Error: " \o local[p].err)
           ELSE /\ ocmu' = p
                /\ pc' = [pc EXCEPT ![p] = "oc_fetch"]
                /\ UNCHANGED <<smu, ocMessages, ocStatus, req, local, hresp>>
        /\ UNCHANGED <<opencodeClient, session, posts>>
        /\ UNCHANGED <<convVars, emVars, extVars>>

\* Session.Messages returns an error.
SendMessageFetchFails ==
    \E p \in Procs :
        /\ pc[p] = "oc_fetch"
        /\ SendMessageFailed(p, "Error getting response: fetch failed")
        /\ UNCHANGED <<opencodeClient, session, posts>>
        /\ UNCHANGED <<convVars, emVars, extVars>>

\* Session.Messages returns the session's messages: the assistant's are
\* appended, the status is stable, SendMessage and createMessage return nil.
SendMessageFetchReturns ==
    \E p \in Procs :
        /\ pc[p] = "oc_fetch"
        /\ ocMessages' = appendResponses(ocMessages, session)
        /\ ocStatus' = ConversationStatusStable
        /\ ocmu' = None
        /\ smu' = [smu EXCEPT !.w = None]
        /\ Respond(p, SendOp(p), ErrNil, "", <<>>,
                   local[p].appended + Len(ocMessages') - Len(ocMessages))
        /\ UNCHANGED <<opencodeClient, session, posts>>
        /\ UNCHANGED <<convVars, emVars, extVars>>

\* s.mu.RLock() of getStatus and getMessages.
CanRLockServer == smu.w = None

HandlerRLock ==
    \E p \in Procs :
        /\ pc[p] \in { "gs_rlock", "gm_rlock" }
        /\ CanRLockServer
        /\ smu' = [smu EXCEPT !.r = @ \cup {p}]
        /\ pc' = [pc EXCEPT ![p] = IF pc[p] = "gs_rlock" THEN "gs_oc_rlock"
                                                        ELSE "gm_oc_rlock"]
        /\ UNCHANGED <<opencodeClient, ocmu, ocMessages, ocStatus, session, req,
                       local, hresp, posts>>
        /\ UNCHANGED <<convVars, emVars, extVars>>

CanRLockClientNever == FALSE

\* oc.mu.RLock() of OpencodeClient.Status and Messages.
CanRLockClient == ocmu = None

\* Server.getStatus with s.mu read-locked: the watcher's status, or stable
\* when there is no client.
getStatus ==
    \E p \in Procs :
        /\ pc[p] = "gs_oc_rlock"
        /\ opencodeClient => CanRLockClient
        /\ smu' = [smu EXCEPT !.r = @ \ {p}]
        /\ Respond(p, "getStatus", ErrNil,
                   convertStatus(IF opencodeClient THEN ocStatus
                                 ELSE ConversationStatusStable), <<>>, 0)
        /\ UNCHANGED <<opencodeClient, ocmu, ocMessages, ocStatus, session, posts>>
        /\ UNCHANGED <<convVars, emVars, extVars>>

\* Server.getMessages with s.mu read-locked: a copy of the watcher's messages.
getMessages ==
    \E p \in Procs :
        /\ pc[p] = "gm_oc_rlock"
        /\ opencodeClient => CanRLockClient
        /\ smu' = [smu EXCEPT !.r = @ \ {p}]
        /\ Respond(p, "getMessages", ErrNil, "",
                   IF opencodeClient THEN ocMessages ELSE <<>>, 0)
        /\ UNCHANGED <<opencodeClient, ocmu, ocMessages, ocStatus, session, posts>>
        /\ UNCHANGED <<convVars, emVars, extVars>>

\* OpencodeClient.Status called without s.mu, as the loop of
\* StartSnapshotLoop calls it.
ClientStatus ==
    \E p \in Procs :
        /\ pc[p] = "ds_rlock"
        /\ CanRLockClient
        /\ Respond(p, "Status", ErrNil, ocStatus, <<>>, 0)
        /\ UNCHANGED <<opencodeClient, smu, ocmu, ocMessages, ocStatus, session, posts>>
        /\ UNCHANGED <<convVars, emVars, extVars>>

ServerInit ==
    \E client \in BOOLEAN :
        InitWith(client, FallbackDefaults, NoTracker, "", NewService(FALSE))

ServerNext ==
    \/ Receive
    \/ ServerCreateMessage
    \/ SendMessageSetChanging
    \/ SendMessageNextId
    \/ SendMessageAppendUser
    \/ ChatReturns
    \/ SendMessageAfterChat
    \/ SendMessageFetchFails
    \/ SendMessageFetchReturns
    \/ HandlerRLock
    \/ getStatus
    \/ getMessages
    \/ ClientStatus

ServerSpec == ServerInit /\ [][ServerNext]_vars

\* The Go scheduler runs every goroutine that can run and the backend
\* answers every call.  A goroutine that waits for a mutex is not passed over
\* for ever: a blocked Lock of a sync.RWMutex keeps new readers out, and a
\* sync.Mutex hands over to a waiter that has waited long.  So the goroutine
\* of a request that can take its next step again and again takes it.
\* What a message says has no part in who holds which mutex, so the requests
\* of this specification all carry the same content.
ProcStep(p) == ServerNext /\ pc[p] # "idle" /\ pc'[p] # pc[p]

FairServerSpec ==
    /\ ServerInit
    /\ [][ServerNext /\ \A p \in Procs : req'[p].content \in { "", "a" }]_vars
    /\ \A p \in Procs : SF_vars(ProcStep(p))

----------------------------------------------------------------------------
\* The OpencodeClient on its own: goroutines call its exported methods
\* SendMessage and Status directly, with no Server.mu around the calls.
ClientCallAs(p, kind, content) ==
    /\ pc[p] = "idle"
    /\ kind = "oc_send" => posts < MaxPosts
    /\ req' = [req EXCEPT ![p] = [kind |-> kind, content |-> content,
                                  busy |-> ocStatus # ConversationStatusStable]]
    /\ pc' = [pc EXCEPT ![p] = IF kind = "oc_send" THEN "oc_lock1"
                                                   ELSE "ds_rlock"]
    /\ posts' = IF kind = "oc_send" THEN posts + 1 ELSE posts
    /\ UNCHANGED <<opencodeClient, smu, ocmu, ocMessages, ocStatus, session,
                   local, hresp>>
    /\ UNCHANGED <<convVars, emVars, extVars>>

ClientCall ==
    \E p \in Procs : \E kind \in { "oc_send", "oc_status" } :
    \E content \in (IF kind = "oc_send" THEN OcContents ELSE {""}) :
        ClientCallAs(p, kind, content)

ClientNext ==
    \/ ClientCall
    \/ SendMessageSetChanging
    \/ SendMessageNextId
    \/ SendMessageAppendUser
    \/ ChatReturns
    \/ SendMessageAfterChat
    \/ SendMessageFetchFails
    \/ SendMessageFetchReturns
    \/ ClientStatus

ClientSpec ==
    /\ InitWith(TRUE, FallbackDefaults, NoTracker, "", NewService(FALSE))
    /\ [][ClientNext]_vars

----------------------------------------------------------------------------
\* A process holds one of the two message lists: an OpenCodeServer has a
\* Conversation and no OpencodeClient, a Server has an OpencodeClient and no
\* Conversation. A run is a run of the one or of the other.
HistorySpec ==
    /\ ServerInit
    /\ [][\/ ~opencodeClient /\ Next
          \/ opencodeClient /\ ClientNext]_vars

----------------------------------------------------------------------------
\* The EventEmitter and the /events handlers of the OpenCodeServer. The
\* emitter's own code is not part of the sources: Subscribe, Unsubscribe and
\* the three Update...AndEmitChanges are written from the specification
\* (4.2); the polling loop and subscribeEvents are the code's. A call of the
\* emitter is one step (it runs under the emitter's lock).

StatusEvent(st) == [type |-> EventTypeStatusChange, payload |-> [status |-> st]]
MessageEvent(m) == [type |-> EventTypeMessageUpdate, payload |-> m]
ScreenEvent(sc) == [type |-> EventTypeScreenUpdate, payload |-> [screen |-> sc]]

\* Subscribe's replay batch: the status, one event per message, the screen.
ReplayBatch(e) ==
    <<StatusEvent(e.status)>>
        \o [i \in 1..Len(e.messages) |-> MessageEvent(e.messages[i])]
        \o <<ScreenEvent(e.screen)>>

\* The non-blocking enqueue of one event to every registered subscriber.
BroadcastAllOrNothing(chs, ev) ==
    IF \E s \in DOMAIN chs : Len(chs[s]) >= QueueCap THEN chs
    ELSE [s \in DOMAIN chs |-> Append(chs[s], ev)]

Broadcast(chs, ev) ==
    [s \in DOMAIN chs |->
        IF Len(chs[s]) < QueueCap THEN Append(chs[s], ev) ELSE chs[s]]

RECURSIVE BroadcastAll(_, _)
BroadcastAll(chs, evs) ==
    IF evs = <<>> THEN chs
    ELSE BroadcastAll(Broadcast(chs, Head(evs)), Tail(evs))

\* UpdateStatusAndEmitChanges(st): the events it enqueues.
StatusChangesAlways(e, st) == <<StatusEvent(st)>>

StatusChanges(e, st) ==
    IF st # e.status THEN <<StatusEvent(st)>> ELSE <<>>

\* UpdateMessagesAndEmitChanges(msgs): one event for each message whose id is
\* new or whose content differs from the last-broadcast message of that id.
IsNewOrChanged(old, m) ==
    ~ \E i \in 1..Len(old) : old[i].Id = m.Id /\ old[i].Message = m.Message

RECURSIVE MessageChanges(_, _)
MessageChanges(old, msgs) ==
    IF msgs = <<>> THEN <<>>
    ELSE (IF IsNewOrChanged(old, Head(msgs)) THEN <<MessageEvent(Head(msgs))>>
          ELSE <<>>) \o MessageChanges(old, Tail(msgs))

\* UpdateScreenAndEmitChanges(screen)
ScreenChanges(e, sc) ==
    IF sc # e.screen THEN <<ScreenEvent(sc)>> ELSE <<>>

\* Conversation.Screen()
Screen == ""

RECURSIVE Types(_)
Types(evs) == IF evs = <<>> THEN <<>> ELSE <<Head(evs).type>> \o Types(Tail(evs))

\* One call of the emitter that offers evs to the subscribers, the first call
\* of a pass of the loop or a later one; with the history of what was offered
\* and for whom an event was dropped.
Offered(evs, first) ==
    /\ chans' = BroadcastAll(chans, evs)
    /\ tickLog' = (IF first THEN <<>> ELSE tickLog) \o Types(evs)
    /\ watcher' = [watcher EXCEPT !.dropped =
                      IF Watched \notin DOMAIN chans
                             \/ \E i \in 1..Len(evs) : evs[i].type = EventTypeScreenUpdate
                      THEN @
                      ELSE LET got == Len(chans'[Watched]) - Len(chans[Watched]) IN
                           IF got < Len(evs) THEN "dropped"
                           ELSE IF got > 0 /\ @ = "dropped" THEN "enqueued"
                           ELSE @]

\* OpenCodeServer.StartSnapshotLoop: Conversation.StartSnapshotLoop does
\* nothing, then the polling goroutine is started.
StartSnapshotLoop ==
    /\ loop = "off"
    /\ loop' = "status"
    /\ UNCHANGED <<emitter, chans, handler, tickLog, watcher>>
    /\ UNCHANGED <<convVars, srvVars, extVars>>

\* The calls of one pass of the loop with the screen before the messages.
TickOrderScreenSecond(at) ==
    CASE at = "status" -> "screen"
      [] at = "screen" -> "messages"
      [] at = "messages" -> "status"

\* The calls of one pass of the loop: status, messages, screen, then the
\* sleep and the next pass.
TickOrder(at) ==
    CASE at = "status" -> "messages"
      [] at = "messages" -> "screen"
      [] at = "screen" -> "status"

\* s.emitter.UpdateStatusAndEmitChanges(adapter.Status())
TickStatus ==
    /\ loop = "status"
    /\ Offered(StatusChanges(emitter, status), TRUE)
    /\ emitter' = [emitter EXCEPT !.status = status]
    /\ loop' = TickOrder("status")
    /\ UNCHANGED handler
    /\ UNCHANGED <<convVars, srvVars, extVars>>

\* s.emitter.UpdateMessagesAndEmitChanges(adapter.Messages())
TickMessages ==
    /\ loop = "messages"
    /\ Offered(MessageChanges(emitter.messages, messages), FALSE)
    /\ emitter' = [emitter EXCEPT !.messages = messages]
    /\ loop' = TickOrder("messages")
    /\ UNCHANGED handler
    /\ UNCHANGED <<convVars, srvVars, extVars>>

\* s.emitter.UpdateScreenAndEmitChanges(adapter.Screen()), then time.Sleep.
TickScreen ==
    /\ loop = "screen"
    /\ Offered(ScreenChanges(emitter, Screen), FALSE)
    /\ emitter' = [emitter EXCEPT !.screen = Screen]
    /\ loop' = TickOrder("screen")
    /\ UNCHANGED handler
    /\ UNCHANGED <<convVars, srvVars, extVars>>

\* chs without the queue of s
Without(chs, s) == [t \in DOMAIN chs \ {s} |-> chs[t]]

\* msgs with m in the place of the message of its id, or at the end.
Upsert(msgs, m) ==
    IF \E i \in 1..Len(msgs) : msgs[i].Id = m.Id
    THEN [i \in 1..Len(msgs) |-> IF msgs[i].Id = m.Id THEN m ELSE msgs[i]]
    ELSE Append(msgs, m)

\* What a client holds after it applied an event to what it held.
ApplyEvent(view, ev) ==
    CASE ev.type = EventTypeStatusChange ->
             [view EXCEPT !.status = ev.payload.status]
      [] ev.type = EventTypeMessageUpdate ->
             [view EXCEPT !.messages = Upsert(@, ev.payload)]
      [] OTHER -> view

RECURSIVE ApplyAll(_, _)
ApplyAll(view, evs) ==
    IF evs = <<>> THEN view ELSE ApplyAll(ApplyEvent(view, Head(evs)), Tail(evs))

\* subscribeEvents or subscribeScreen begins: s.emitter.Subscribe() registers
\* a queue and returns the replay batch.
SubscribeAs(s) ==
    /\ handler[s].state = "none"
    /\ chans' = [t \in DOMAIN chans \cup {s} |->
                    IF t = s THEN <<>> ELSE chans[t]]
    /\ handler' = [handler EXCEPT ![s] =
                      [@ EXCEPT !.state = "replay",
                                !.batch = ReplayBatch(emitter)]]
    /\ UNCHANGED <<emitter, loop, tickLog, watcher>>
    /\ UNCHANGED <<convVars, srvVars, extVars>>

\* s.emitter.Unsubscribe(id): the registry without the queue of id.
UnsubscribeSomeIfAbsent(chs, id) ==
    IF id \in DOMAIN chs \/ DOMAIN chs = {} THEN Without(chs, id)
    ELSE Without(chs, CHOOSE t \in DOMAIN chs : TRUE)

Unsubscribe(chs, id) == Without(chs, id)

\* The types of the events a handler sent, kept for the clients in Traced.
Sends(s, evs) ==
    IF s \in Traced
    THEN [sent EXCEPT ![s] = @ \cup { evs[i].type : i \in 1..Len(evs) }]
    ELSE sent

\* The handler returns and its deferred s.emitter.Unsubscribe(subscriberId)
\* runs; nothing of the handler is read after that.
ReturnKeepsSubscription(s) ==
    /\ chans' = chans
    /\ handler' = [handler EXCEPT ![s] =
                      [@ EXCEPT !.state = "done", !.batch = <<>>]]
    /\ watcher' = IF s = Watched THEN NoClient ELSE watcher
    /\ sent' = IF s \in Traced THEN [sent EXCEPT ![s] = {}] ELSE sent
    /\ UNCHANGED <<ret, defaults, tracker, agentio, now, service>>

Return(s) ==
    /\ chans' = Unsubscribe(chans, s)
    /\ handler' = [handler EXCEPT ![s] =
                      [@ EXCEPT !.state = "done", !.batch = <<>>,
                                !.unsubscribed = @ + 1]]
    /\ watcher' = IF s = Watched THEN NoClient ELSE watcher
    /\ sent' = IF s \in Traced THEN [sent EXCEPT ![s] = {}] ELSE sent
    /\ UNCHANGED <<ret, defaults, tracker, agentio, now, service>>

RECURSIVE Reverse(_)
Reverse(seq) == IF seq = <<>> THEN <<>> ELSE Append(Reverse(Tail(seq)), Head(seq))

\* The events a loop over stateEvents sends that starts at the end: the
\* last of the batch first.
ReplaySendsNewestFirst(batch) ==
    Reverse(SelectSeq(batch, LAMBDA ev : ev.type # EventTypeScreenUpdate))

\* The events a loop over stateEvents sends that skips nothing.
ReplaySendsAll(batch) == batch

\* The events the loop over stateEvents sends: all but the screen events, in
\* the order of the batch.
ReplaySends(batch) ==
    SelectSeq(batch, LAMBDA ev : ev.type # EventTypeScreenUpdate)

\* The loop over stateEvents, as one step (what the emitter does meanwhile
\* only fills the queue, as it does before this step): the first n events
\* are sent; then the next send fails and the handler returns, or the batch
\* is at its end and the handler goes on to the loop over ch.
SendReplayAs(s) ==
    LET h == handler[s]
        evs == ReplaySends(h.batch)
    IN
    /\ h.state = "replay"
    /\ \E n \in 0..Len(evs) :
          IF n = Len(evs)
          THEN /\ handler' = [handler EXCEPT ![s] =
                                 [h EXCEPT !.state = "live", !.batch = <<>>]]
               /\ watcher' = IF s = Watched
                            THEN [watcher EXCEPT !.view = ApplyAll(@, evs)]
                            ELSE watcher
               /\ sent' = Sends(s, evs)
               /\ UNCHANGED chans
               /\ UNCHANGED <<ret, defaults, tracker, agentio, now, service>>
          ELSE Return(s)
    /\ UNCHANGED <<emitter, loop, tickLog>>
    /\ UNCHANGED <<convVars, srvVars>>

\* One pass of the loop over ch that receives an event: a screen event is
\* skipped, any other is sent, and a failed send ends the handler.
RelayAs(s) ==
    \E ok \in BOOLEAN :
        LET h == handler[s] IN
        /\ h.state = "live"
        /\ chans[s] # <<>>
        /\ LET ev == Head(chans[s]) IN
           IF ev.type = EventTypeScreenUpdate
           THEN /\ ok
                /\ chans' = [chans EXCEPT ![s] = Tail(@)]
                /\ UNCHANGED <<handler, watcher, extVars>>
           ELSE IF ok
           THEN /\ chans' = [chans EXCEPT ![s] = Tail(@)]
                /\ watcher' = IF s = Watched
                             THEN [watcher EXCEPT
                                      !.view = ApplyEvent(@, ev),
                                      !.lastLive = [@ EXCEPT ![ev.type] = {ev.payload}]]
                             ELSE watcher
                /\ sent' = Sends(s, <<ev>>)
                /\ UNCHANGED handler
                /\ UNCHANGED <<ret, defaults, tracker, agentio, now, service>>
           ELSE Return(s)
        /\ UNCHANGED <<emitter, loop, tickLog>>
        /\ UNCHANGED <<convVars, srvVars>>

\* The loop over ch takes the case <-ctx.Done(): the client went away.
ContextDoneAs(s) ==
    /\ handler[s].state = "live"
    /\ Return(s)
    /\ UNCHANGED <<emitter, loop, tickLog>>
    /\ UNCHANGED <<convVars, srvVars>>

\* The requests the OpenCodeServer gets while its events are watched, and
\* the backend's replies to them.
EmitterPost ==
    /\ Len(messages) < MaxWatched
    /\ createMessage(MessageTypeUser, "a")

EmitterReply ==
    \E t \in tasks : t.phase = "requested" /\ AsyncReply(t, <<"x", "y">>)

EmitterNext ==
    \/ EmitterPost
    \/ AsyncRequest
    \/ AsyncFail
    \/ EmitterReply
    \/ StartSnapshotLoop
    \/ TickStatus
    \/ TickMessages
    \/ TickScreen
    \/ \E s \in Subscribers : SubscribeAs(s)
    \/ \E s \in Subscribers : SendReplayAs(s)
    \/ \E s \in Subscribers : RelayAs(s)
    \/ \E s \in Subscribers : ContextDoneAs(s)

EmitterSpec == Init /\ [][EmitterNext]_vars

\* The polling goroutine runs for ever (a ticker and three calls that wait
\* for nobody), and the goroutine of a connected /events handler that can
\* send its replay or take an event from its queue does so.
FairEmitterSpec ==
    /\ EmitterSpec
    /\ WF_vars(StartSnapshotLoop \/ TickStatus \/ TickMessages \/ TickScreen)
    /\ WF_vars(SendReplayAs(Watched) \/ RelayAs(Watched))

----------------------------------------------------------------------------
\* The callers of Messages(): a caller gets the list and then changes what
\* it got, by writing an element, appending or truncating.

\* Conversation.Messages(): append([]st.ConversationMessage{}, c.messages...)
MessagesShared(msgs) ==
    [held |-> TRUE, owner |-> "conversation", shared |-> TRUE,
     mutated |-> FALSE, list |-> msgs]

Messages(msgs) ==
    [held |-> TRUE, owner |-> "conversation", shared |-> FALSE,
     mutated |-> FALSE, list |-> msgs]

\* OpencodeClient.Messages(): make and copy.
ClientMessages(msgs) ==
    [held |-> TRUE, owner |-> "client", shared |-> FALSE,
     mutated |-> FALSE, list |-> msgs]

CallMessages ==
    /\ ret' = Messages(messages)
    /\ UNCHANGED <<sent, defaults, tracker, agentio, now, service>>
    /\ UNCHANGED <<convVars, srvVars, emVars>>

\* With oc.mu read-locked.
CallClientMessages ==
    /\ CanRLockClient
    /\ ret' = ClientMessages(ocMessages)
    /\ UNCHANGED <<sent, defaults, tracker, agentio, now, service>>
    /\ UNCHANGED <<convVars, srvVars, emVars>>

Scribble == [Id |-> 99, Role |-> ConversationRoleUser, Message |-> "z"]

Mutated(list, kind, i) ==
    CASE kind = "set" -> [list EXCEPT ![i] = Scribble]
      [] kind = "append" -> Append(list, Scribble)
      [] kind = "truncate" -> SubSeq(list, 1, i - 1)

\* What the write does to the owner's list, under Go's slices: nothing when
\* the caller's slice has its own backing array. A shared array shows the
\* owner a written element; an append writes the slot behind the caller's
\* length when the capacity allows, which is the owner's next message when
\* the owner has appended since; a truncation changes the caller's slice
\* header only.
OwnerAfter(owned, kind, i) ==
    IF ~ret.shared THEN { owned }
    ELSE CASE kind = "set" -> { [owned EXCEPT ![i] = Scribble] }
           [] kind = "append" ->
                  IF Len(owned) > Len(ret.list)
                  THEN { owned, [owned EXCEPT ![Len(ret.list) + 1] = Scribble] }
                  ELSE { owned }
           [] kind = "truncate" -> { owned }

CallerMutates ==
    \E kind \in { "set", "append", "truncate" } :
    \E i \in 1..Len(ret.list) + 1 :
        /\ ret.held /\ ~ret.mutated
        /\ kind # "append" => i <= Len(ret.list)
        /\ kind = "append" => i = Len(ret.list) + 1
        /\ ret' = [ret EXCEPT !.mutated = TRUE,
                              !.list = Mutated(@, kind, i)]
        /\ IF ret.owner = "conversation"
           THEN /\ messages' \in OwnerAfter(messages, kind, i)
                /\ UNCHANGED ocMessages
           ELSE /\ ocMessages' \in OwnerAfter(ocMessages, kind, i)
                /\ UNCHANGED messages
        /\ UNCHANGED <<status, tasks, requests, sendErr, turns, resp>>
        /\ UNCHANGED <<opencodeClient, smu, ocmu, ocStatus, session, pc, req,
                       local, hresp, posts>>
        /\ UNCHANGED <<sent, defaults, tracker, agentio, now, service>>
        /\ UNCHANGED emVars

CopySpec == ServerInit /\ [][(\/ /\ ~opencodeClient
                                 /\ \/ EmitterPost
                                    \/ AsyncRequest
                                    \/ AsyncFail
                                    \/ EmitterReply
                                    \/ CallMessages
                              \/ /\ opencodeClient
                                 /\ \/ ClientCallAs("p1", "oc_send", "a")
                                    \/ SendMessageSetChanging
                                    \/ SendMessageNextId
                                    \/ SendMessageAppendUser
                                    \/ ChatReturns
                                    \/ SendMessageAfterChat
                                    \/ SendMessageFetchFails
                                    \/ SendMessageFetchReturns
                                    \/ CallClientMessages
                              \/ CallerMutates)]_vars

----------------------------------------------------------------------------
\* The OpenCodeServer with a client of /events and a client of
\* /internal/screen, and with calls of Unsubscribe beyond the one each
\* handler makes when it returns.
MaxUnsubscribes == 2

SubscribeScreen == \E s \in ScreenSubscribers : SubscribeAs(s)

\* subscribeScreen's loop over stateEvents, as one step: it sends the screen
\* events, in the order of the batch.
SendReplayScreen ==
    \E s \in ScreenSubscribers :
        LET h == handler[s]
            evs == SelectSeq(h.batch,
                             LAMBDA ev : ev.type = EventTypeScreenUpdate)
        IN
        /\ h.state = "replay"
        /\ \E n \in 0..Len(evs) :
              IF n = Len(evs)
              THEN /\ handler' = [handler EXCEPT ![s] =
                                     [h EXCEPT !.state = "live", !.batch = <<>>]]
                   /\ sent' = Sends(s, evs)
                   /\ UNCHANGED <<chans, watcher>>
                   /\ UNCHANGED <<ret, defaults, tracker, agentio, now, service>>
              ELSE Return(s)
        /\ UNCHANGED <<emitter, loop, tickLog>>
        /\ UNCHANGED <<convVars, srvVars>>

\* One pass of subscribeScreen's loop over ch that receives an event: a
\* screen event is sent, any other is skipped, and a failed send ends the
\* handler.
RelayScreen ==
    \E s \in ScreenSubscribers : \E ok \in BOOLEAN :
        LET h == handler[s] IN
        /\ h.state = "live"
        /\ chans[s] # <<>>
        /\ LET ev == Head(chans[s]) IN
           IF ev.type # EventTypeScreenUpdate
           THEN /\ ok
                /\ chans' = [chans EXCEPT ![s] = Tail(@)]
                /\ UNCHANGED <<handler, watcher, extVars>>
           ELSE IF ok
           THEN /\ chans' = [chans EXCEPT ![s] = Tail(@)]
                /\ sent' = Sends(s, <<ev>>)
                /\ UNCHANGED <<handler, watcher>>
                /\ UNCHANGED <<ret, defaults, tracker, agentio, now, service>>
           ELSE Return(s)
        /\ UNCHANGED <<emitter, loop, tickLog>>
        /\ UNCHANGED <<convVars, srvVars>>

ContextDoneScreen == \E s \in ScreenSubscribers : ContextDoneAs(s)

\* A call of s.emitter.Unsubscribe(id) with an id that has no queue: the id
\* of a handler that returned, or one Subscribe has not given out.
UnsubscribeAgain ==
    \E s \in Traced :
        /\ handler[s].state \in { "none", "done" }
        /\ handler[s].unsubscribed < MaxUnsubscribes
        /\ chans' = Unsubscribe(chans, s)
        /\ handler' = [handler EXCEPT ![s].unsubscribed = @ + 1]
        /\ UNCHANGED <<emitter, loop, tickLog, watcher>>
        /\ UNCHANGED <<convVars, srvVars, extVars>>

StreamSpec == Init /\ [][(\/ EmitterPost
                          \/ AsyncRequest
                          \/ AsyncFail
                          \/ EmitterReply
                          \/ StartSnapshotLoop
                          \/ TickStatus
                          \/ TickMessages
                          \/ TickScreen
                          \/ SubscribeAs(Watched)
                          \/ SendReplayAs(Watched)
                          \/ RelayAs(Watched)
                          \/ ContextDoneAs(Watched)
                          \/ SubscribeScreen
                          \/ SendReplayScreen
                          \/ RelayScreen
                          \/ ContextDoneScreen)]_vars

RegistrySpec == Init /\ [][(\/ messages = <<>> /\ createMessage(MessageTypeUser, "a")
                            \/ AsyncRequest
                            \/ AsyncFail
                            \/ StartSnapshotLoop
                            \/ TickStatus
                            \/ TickMessages
                            \/ TickScreen
                            \/ SubscribeAs(Watched)
                            \/ SendReplayAs(Watched)
                            \/ RelayAs(Watched)
                            \/ ContextDoneAs(Watched)
                            \/ SubscribeScreen
                            \/ SendReplayScreen
                            \/ RelayScreen
                            \/ ContextDoneScreen
                            \/ UnsubscribeAgain)]_vars

----------------------------------------------------------------------------
\* The Server whose NewOpencodeClient failed: NewServer logs the error and
\* goes on with s.opencodeClient nil. Its handlers, its polling loop and its
\* SSE clients; no event ever reaches a queue, so the handlers' loops over
\* ch only wait.

\* Server.StartSnapshotLoop with agentType opencode: the goroutine starts.
ServerStartSnapshotLoop ==
    /\ loop = "off"
    /\ loop' = "check"
    /\ UNCHANGED <<emitter, chans, handler, tickLog, watcher>>
    /\ UNCHANGED <<convVars, srvVars, extVars>>

\* A loop that makes its first call of the emitter whatever the client is.
ServerLoopUnchecked ==
    /\ loop = "check"
    /\ Offered(StatusChanges(emitter, ocStatus), TRUE)
    /\ emitter' = [emitter EXCEPT !.status = ocStatus]
    /\ loop' = "sleep"
    /\ UNCHANGED handler
    /\ UNCHANGED <<convVars, srvVars, extVars>>

\* The top of the loop: "if s.opencodeClient != nil" leads to the three calls
\* of the emitter, and otherwise to time.Sleep at once.
ServerLoopCheck ==
    /\ loop = "check"
    /\ loop' = IF opencodeClient THEN "status" ELSE "sleep"
    /\ UNCHANGED <<emitter, chans, handler, tickLog, watcher>>
    /\ UNCHANGED <<convVars, srvVars, extVars>>

\* time.Sleep(snapshotInterval) returns.
ServerLoopSleep ==
    /\ loop = "sleep"
    /\ loop' = "check"
    /\ UNCHANGED <<emitter, chans, handler, tickLog, watcher>>
    /\ UNCHANGED <<convVars, srvVars, extVars>>

DegradedSpec == Init /\ [][(\/ Receive
                            \/ ServerCreateMessage
                            \/ HandlerRLock
                            \/ getStatus
                            \/ getMessages
                            \/ ServerStartSnapshotLoop
                            \/ ServerLoopCheck
                            \/ ServerLoopSleep
                            \/ SubscribeAs(Watched)
                            \/ SendReplayAs(Watched)
                            \/ ContextDoneAs(Watched)
                            \/ SubscribeScreen
                            \/ SendReplayScreen
                            \/ ContextDoneScreen)]_vars

----------------------------------------------------------------------------
(***************************************************************************)
(* The conversation tracker of the terminal agents: the Conversation that  *)
(* NewServer builds from ConversationConfig when the agent type is not     *)
(* opencode, and the formatMessage it is configured with.  Their code is   *)
(* not in the sources: SendMessage, poll and the chrome stripping follow   *)
(* section 4.1 of the specification.  A screen is a string, a line is a    *)
(* string without a line feed, and time is counted in seconds.             *)
(***************************************************************************)

\* ScreenStabilityLength of the ConversationConfig, in seconds.
ScreenStabilityLength == 2

\* The last second of the model's clock.
MaxTime == 3

\* The user messages one run sends to the tracker.
MaxTurns == 2

\* The terminal sessions of the model: what the agent has drawn by the end
\* of a run.  The first is a banner, a prompt, the echo of the user's text,
\* a reply and a prompt again; the second is a reply over a separator.
Sessions ==
    { "W\n> a\nx\n> ",
      "x\n--" }

\* A snapshot is a captured screen text; taken is FALSE while there is none.
Snapshot(text) == [taken |-> TRUE, text |-> text]

\* strings.HasPrefix
HasPrefix(text, prefix) ==
    /\ Len(prefix) <= Len(text)
    /\ SubSeq(text, 1, Len(prefix)) = prefix

\* The position of the first line feed of text at or after i, 0 for none.
RECURSIVE FirstNewline(_, _)
FirstNewline(text, i) ==
    IF i > Len(text) THEN 0
    ELSE IF SubSeq(text, i, i) = "\n" THEN i
    ELSE FirstNewline(text, i + 1)

\* strings.Split(text, "\n")
RECURSIVE Lines(_)
Lines(text) ==
    LET n == FirstNewline(text, 1) IN
    IF n = 0 THEN << text >>
    ELSE << SubSeq(text, 1, n - 1) >> \o Lines(SubSeq(text, n + 1, Len(text)))

\* strings.Join(lines, "\n")
RECURSIVE JoinLines(_)
JoinLines(lines) ==
    IF lines = <<>> THEN ""
    ELSE IF Len(lines) = 1 THEN lines[1]
    ELSE lines[1] \o "\n" \o JoinLines(Tail(lines))

\* Every character of line is c.
RECURSIVE AllChars(_, _)
AllChars(line, c) ==
    \/ line = ""
    \/ /\ SubSeq(line, 1, 1) = c
       /\ AllChars(SubSeq(line, 2, Len(line)), c)

\* The prompt markers and the separator characters of the input box.
IsPromptMarker(line) == line \in { ">", "> ", "prompt>", "prompt> " }

IsSeparator(line) ==
    /\ Len(line) >= 2
    /\ \E c \in { "-", "=" } : AllChars(line, c)

IsBlank(line) == AllChars(line, " ")

\* The diff region: the suffix of the screen beyond the baseline's content.
\* A screen that no longer starts with the baseline is taken whole.
DiffRegion(baseline, screen) ==
    IF HasPrefix(screen, baseline)
    THEN SubSeq(screen, Len(baseline) + 1, Len(screen))
    ELSE screen

\* Chrome stripping, first step: the leading lines that reproduce the text
\* of the last user message go.  "" stands for no user message.
RemoveUserInputKeepsEcho(lines, userInput) == lines

RECURSIVE RemoveUserInput(_, _)
RemoveUserInput(lines, userInput) ==
    IF lines # <<>> /\ userInput # "" /\ Head(lines) = userInput
    THEN RemoveUserInput(Tail(lines), userInput)
    ELSE lines

\* Second step: the trailing lines that are a prompt marker or a separator.
RECURSIVE RemoveMessageBox(_)
RemoveMessageBox(lines) ==
    IF lines # <<>> /\ ( \/ IsPromptMarker(lines[Len(lines)])
                         \/ IsSeparator(lines[Len(lines)]) )
    THEN RemoveMessageBox(SubSeq(lines, 1, Len(lines) - 1))
    ELSE lines

\* Third step: the blank lines around what is left.
RECURSIVE TrimBlankLines(_)
TrimBlankLines(lines) ==
    IF lines = <<>> THEN lines
    ELSE IF IsBlank(Head(lines)) THEN TrimBlankLines(Tail(lines))
    ELSE IF IsBlank(lines[Len(lines)])
    THEN TrimBlankLines(SubSeq(lines, 1, Len(lines) - 1))
    ELSE lines

\* formatMessage(message, userInput) of the ConversationConfig
formatMessage(message, userInput) ==
    JoinLines(TrimBlankLines(RemoveMessageBox(
        RemoveUserInput(Lines(message), userInput))))

\* The tracker after construction.  queued counts the writes SendMessage
\* has dispatched that have not reached the screen source yet, written the
\* writes that have.
NewTracker ==
    [ messages   |-> <<>>,
      status     |-> ConversationStatusStable,
      baseline   |-> [taken |-> FALSE, text |-> ""],
      last       |-> [taken |-> FALSE, text |-> ""],
      lastChange |-> 0,
      queued     |-> 0,
      written    |-> 0 ]

\* The text of the last user message, "" before the first.
RECURSIVE LastUserMessage(_)
LastUserMessage(msgs) ==
    IF msgs = <<>> THEN ""
    ELSE IF msgs[Len(msgs)].Role = ConversationRoleUser
    THEN msgs[Len(msgs)].Message
    ELSE LastUserMessage(SubSeq(msgs, 1, Len(msgs) - 1))

UserMessages(msgs) ==
    SelectSeq(msgs, LAMBDA m : m.Role = ConversationRoleUser)

\* The turn's agent message is set: created after the user message (or as
\* the first message), overwritten once it is there.
SetAgentMessageAppends(msgs, text) ==
    Append(msgs, [Id |-> Len(msgs), Role |-> ConversationRoleAgent,
                  Message |-> text])

SetAgentMessage(msgs, text) ==
    IF msgs = <<>> \/ msgs[Len(msgs)].Role = ConversationRoleUser
    THEN Append(msgs, [Id |-> Len(msgs), Role |-> ConversationRoleAgent,
                       Message |-> text])
    ELSE [msgs EXCEPT ![Len(msgs)].Message = text]

\* What a poll that found the screen changed derives from it: before the
\* first send the whole screen, after it the diff region, both stripped.
DerivedOnlyAfterSend(t, screen) ==
    IF t.baseline.taken
    THEN formatMessage(DiffRegion(t.baseline.text, screen),
                       LastUserMessage(t.messages))
    ELSE ""

Derived(t, screen) ==
    IF t.baseline.taken
    THEN formatMessage(DiffRegion(t.baseline.text, screen),
                       LastUserMessage(t.messages))
    ELSE formatMessage(screen, "")

\* SendMessage(text): AgentBusy and EmptyInput leave the tracker as it is.
TrackerSendMessage ==
    /\ \E text \in { "", "a" } :
          IF tracker.status = ConversationStatusChanging \/ text = ""
          THEN tracker' = tracker
          ELSE /\ Len(UserMessages(tracker.messages)) < MaxTurns
               /\ tracker' =
                    [tracker EXCEPT
                       !.baseline = Snapshot(agentio),
                       !.messages = Append(@, [Id |-> Len(@),
                                               Role |-> ConversationRoleUser,
                                               Message |-> text]),
                       !.status = ConversationStatusChanging,
                       !.queued = @ + 1]
    /\ UNCHANGED <<agentio, now, service>>
    /\ UNCHANGED <<convVars, srvVars, emVars, sent, ret, defaults>>

\* A queued write reaches the screen source.
ScreenWrite ==
    /\ tracker.queued > 0
    /\ tracker' = [tracker EXCEPT !.queued = @ - 1, !.written = @ + 1]
    /\ UNCHANGED <<agentio, now, service>>
    /\ UNCHANGED <<convVars, srvVars, emVars, sent, ret, defaults>>

\* A queued write fails: the failure is the turn's agent message and the
\* status goes back to stable.
ScreenWriteFails ==
    /\ tracker.queued > 0
    /\ tracker' = [tracker EXCEPT
                     !.queued = @ - 1,
                     !.messages = SetAgentMessage(@, "write failed"),
                     !.status = ConversationStatusStable]
    /\ UNCHANGED <<agentio, now, service>>
    /\ UNCHANGED <<convVars, srvVars, emVars, sent, ret, defaults>>

\* The agent draws: its screen grows at the end.
AgentWrites ==
    /\ \E run \in Sessions : \E n \in 1..Len(run) :
          LET screen == SubSeq(run, 1, n) IN
          /\ Len(screen) > Len(agentio)
          /\ HasPrefix(screen, agentio)
          /\ agentio' = screen
    /\ UNCHANGED <<tracker, now, service>>
    /\ UNCHANGED <<convVars, srvVars, emVars, sent, ret, defaults>>

\* A second passes.
TimePasses ==
    /\ now < MaxTime
    /\ now' = now + 1
    /\ UNCHANGED <<tracker, agentio, service>>
    /\ UNCHANGED <<convVars, srvVars, emVars, sent, ret, defaults>>

\* poll(), steps 1 to 4.
pollIgnoresWindow ==
    /\ tracker' =
         IF tracker.last = Snapshot(agentio)
         THEN IF tracker.status = ConversationStatusChanging
              THEN [tracker EXCEPT !.status = ConversationStatusStable]
              ELSE tracker
         ELSE LET text == Derived(tracker, agentio) IN
              [tracker EXCEPT
                 !.last = Snapshot(agentio),
                 !.lastChange = now,
                 !.messages = IF text # "" THEN SetAgentMessage(@, text)
                              ELSE @]
    /\ UNCHANGED <<agentio, now, service>>
    /\ UNCHANGED <<convVars, srvVars, emVars, sent, ret, defaults>>

poll ==
    /\ tracker' =
         IF tracker.last = Snapshot(agentio)
         THEN IF /\ tracker.status = ConversationStatusChanging
                 /\ now - tracker.lastChange >= ScreenStabilityLength
              THEN [tracker EXCEPT !.status = ConversationStatusStable]
              ELSE tracker
         ELSE LET text == Derived(tracker, agentio) IN
              [tracker EXCEPT
                 !.last = Snapshot(agentio),
                 !.lastChange = now,
                 !.messages = IF text # "" THEN SetAgentMessage(@, text)
                              ELSE @]
    /\ UNCHANGED <<agentio, now, service>>
    /\ UNCHANGED <<convVars, srvVars, emVars, sent, ret, defaults>>

TrackerSpec ==
    /\ InitWith(FALSE, FallbackDefaults, NewTracker, "", NewService(FALSE))
    /\ [][\/ TrackerSendMessage
          \/ ScreenWrite
          \/ ScreenWriteFails
          \/ AgentWrites
          \/ TimePasses
          \/ poll]_vars

\* formatMessage on its own: a tracker one turn in, whose last poll saw the
\* baseline, and a screen that has grown by up to MaxLines lines since.
MaxLines == 3

RECURSIVE SeqsUpTo(_, _)
SeqsUpTo(S, n) ==
    IF n = 0 THEN { <<>> }
    ELSE LET shorter == SeqsUpTo(S, n - 1) IN
         shorter \cup { Append(q, x) : <<q, x>> \in shorter \X S }

FormatSpec ==
    /\ \E baseline \in { "", "prompt> " }, text \in { "a", "hello" },
          lines \in SeqsUpTo({ "", "a", "hello", "Hi there!", "---",
                               "prompt> " }, MaxLines) :
          InitWith(FALSE, FallbackDefaults,
                   [ NewTracker EXCEPT
                       !.messages = << [Id |-> 0,
                                        Role |-> ConversationRoleUser,
                                        Message |-> text] >>,
                       !.status = ConversationStatusChanging,
                       !.baseline = Snapshot(baseline),
                       !.last = Snapshot(baseline),
                       !.written = 1 ],
                   baseline \o JoinLines(lines), NewService(FALSE))
    /\ [][poll]_vars

----------------------------------------------------------------------------
\* The Service of lib/opencode: the "opencode serve" process, the wait for
\* the server to answer (Client.WaitForReady) and Stop.  The clock counts
\* the time since WaitForReady was called in units of its retry delay
\* (100 ms); a probe takes less than one unit or one unit, and the HTTP
\* client's Timeout ends every probe.

\* maxWait, in units of the retry delay.
MaxWait == 2
\* The calls of Stop a caller makes.
MaxStops == 2

\* Stop returns to its caller: to Start, which wraps the error of
\* WaitForReady and returns it, or to the caller of Stop.
StopReturns(s, err) ==
    IF s.inStart
    THEN [s EXCEPT !.pc = "idle", !.inStart = FALSE, !.stopRet = err,
                   !.startRet = s.waitErr]
    ELSE [s EXCEPT !.pc = "idle", !.stopRet = err]

\* WaitForReady returns err to Start: nil is returned as it is, as is every
\* result with the mock server; otherwise Start calls s.Stop() (the command
\* has a process: the interrupt is sent and cmd.Wait is started).
StartAfterWait(s, err) ==
    IF err = "nil" \/ s.mock
    THEN [s EXCEPT !.pc = "idle", !.inStart = FALSE, !.waitErr = err,
                   !.startRet = err]
    ELSE [s EXCEPT !.pc = "stop_select", !.waitErr = err,
                   !.interrupted = (s.proc = "running")]

\* Service.Start up to the call of WaitForReady: with the mock server no
\* process; otherwise cmd.Start(), which fails or leaves a running process.
ServiceStart ==
    /\ service.pc = "idle"
    /\ service.startRet = "none"
    /\ \E ok \in BOOLEAN :
          service' =
              IF service.mock \/ ok
              THEN [service EXCEPT
                       !.pc = "wait_check", !.inStart = TRUE, !.clock = 0,
                       !.cmd = IF service.mock THEN @ ELSE "proc",
                       !.proc = IF service.mock THEN @ ELSE "running"]
              ELSE [service EXCEPT !.cmd = "noproc", !.startRet = "startfail"]
    /\ UNCHANGED <<convVars, srvVars, emVars>>
    /\ UNCHANGED <<sent, ret, defaults, tracker, agentio, now>>

WaitForReadyNilAtDeadline ==
    /\ service.pc = "wait_check"
    /\ \E d \in { 0, 1 } :
          service' =
              IF service.clock >= MaxWait
              THEN StartAfterWait(service, "nil")
              ELSE IF service.ready /\ ~service.ctx
              THEN StartAfterWait([service EXCEPT !.clock = @ + d,
                                                  !.probed = TRUE], "nil")
              ELSE [service EXCEPT !.clock = @ + d, !.pc = "wait_select"]
    /\ UNCHANGED <<convVars, srvVars, emVars>>
    /\ UNCHANGED <<sent, ret, defaults, tracker, agentio, now>>

\* WaitForReady: the test of the deadline and one probe, c.get(ctx,
\* "/config", nil), which fails when the context is done.
WaitForReady ==
    /\ service.pc = "wait_check"
    /\ \E d \in { 0, 1 } :
          service' =
              IF service.clock >= MaxWait
              THEN StartAfterWait(service, "notready")
              ELSE IF service.ready /\ ~service.ctx
              THEN StartAfterWait([service EXCEPT !.clock = @ + d,
                                                  !.probed = TRUE], "nil")
              ELSE [service EXCEPT !.clock = @ + d, !.pc = "wait_select"]
    /\ UNCHANGED <<convVars, srvVars, emVars>>
    /\ UNCHANGED <<sent, ret, defaults, tracker, agentio, now>>

\* WaitForReady: the select after a failed probe, <-ctx.Done() or
\* <-time.After(100 * time.Millisecond).
WaitForReadySelect ==
    /\ service.pc = "wait_select"
    /\ service' =
          IF service.ctx THEN StartAfterWait(service, "ctx")
          ELSE [service EXCEPT !.clock = @ + 1, !.pc = "wait_check"]
    /\ UNCHANGED <<convVars, srvVars, emVars>>
    /\ UNCHANGED <<sent, ret, defaults, tracker, agentio, now>>

\* Service.Stop called from outside: nothing to do with the mock server or
\* without a process; otherwise the interrupt is sent (it fails for a
\* process that has exited) and cmd.Wait is started.
ServiceStop ==
    /\ service.pc = "idle"
    /\ service.stops < MaxStops
    /\ service' =
          IF service.mock \/ service.cmd # "proc"
          THEN [service EXCEPT !.stops = @ + 1, !.stopRet = "nil"]
          ELSE [service EXCEPT !.stops = @ + 1, !.stopRet = "none",
                               !.pc = "stop_select",
                               !.interrupted = (service.proc = "running")]
    /\ UNCHANGED <<convVars, srvVars, emVars>>
    /\ UNCHANGED <<sent, ret, defaults, tracker, agentio, now>>

StopSelectGivesUp ==
    /\ service.pc = "stop_select"
    /\ service' = StopReturns(service, "nil")
    /\ UNCHANGED <<convVars, srvVars, emVars>>
    /\ UNCHANGED <<sent, ret, defaults, tracker, agentio, now>>

\* Stop: the select, <-done when cmd.Wait has returned or
\* <-time.After(5 * time.Second).
StopSelect ==
    /\ service.pc = "stop_select"
    /\ \/ /\ service.proc = "exited"
          /\ service' = StopReturns(service, "nil")
       \/ service' = [service EXCEPT !.pc = "stop_kill"]
    /\ UNCHANGED <<convVars, srvVars, emVars>>
    /\ UNCHANGED <<sent, ret, defaults, tracker, agentio, now>>

\* Stop: s.cmd.Process.Kill() and <-done. Kill fails for a process that
\* cmd.Wait has reaped already, and Stop returns that error.
StopKill ==
    /\ service.pc = "stop_kill"
    /\ \E reaped \in BOOLEAN :
          service' =
              IF service.proc = "exited" /\ reaped
              THEN StopReturns(service, "killfail")
              ELSE StopReturns([service EXCEPT
                                   !.killed = (service.proc = "running"),
                                   !.proc = "exited", !.ready = FALSE], "nil")
    /\ UNCHANGED <<convVars, srvVars, emVars>>
    /\ UNCHANGED <<sent, ret, defaults, tracker, agentio, now>>

\* What happens outside the Service: the server begins to answer, the
\* process exits (by itself, on the interrupt, or killed by
\* exec.CommandContext when the context is done), the context is cancelled.
ServiceEnvironment ==
    /\ \/ /\ ~service.ready
          /\ service.mock \/ service.proc = "running"
          /\ service' = [service EXCEPT !.ready = TRUE]
       \/ /\ service.proc = "running"
          /\ service' = [service EXCEPT !.proc = "exited", !.ready = FALSE]
       \/ /\ ~service.ctx
          /\ service' = [service EXCEPT !.ctx = TRUE]
    /\ UNCHANGED <<convVars, srvVars, emVars>>
    /\ UNCHANGED <<sent, ret, defaults, tracker, agentio, now>>

ServiceSpec ==
    /\ \E mock \in BOOLEAN :
          InitWith(FALSE, FallbackDefaults, NoTracker, "", NewService(mock))
    /\ [][\/ ServiceStart
          \/ WaitForReady
          \/ WaitForReadySelect
          \/ ServiceStop
          \/ StopSelect
          \/ StopKill
          \/ ServiceEnvironment]_vars

\* The goroutine that called Start runs: it makes its next probe and,
\* after a failed one, takes the case of the select that is ready.
FairServiceSpec ==
    ServiceSpec /\ WF_vars(WaitForReady \/ WaitForReadySelect)

----------------------------------------------------------------------------
Last(s) == s[Len(s)]

\* C1: a SendMessage called while the status is changing returns the busy
\* error and leaves the message list, the status and the set of in-flight
\* background sends as they were.
C1_BusyRejected ==
    [][ (status = ConversationStatusChanging /\ CallSendMessage)
          => /\ sendErr' = ErrBusy
             /\ UNCHANGED <<messages, status, tasks, requests>> ]_vars

C1_Witness ==
    /\ status = ConversationStatusChanging
    /\ sendErr = ErrBusy
    /\ tasks # {}

IdsArePositions ==
    \A i \in 1..Len(messages) : messages[i].Id = i - 1

IdsKept ==
    /\ Len(messages') >= Len(messages)
    /\ \A i \in 1..Len(messages) : messages'[i].Id = messages[i].Id

\* C2: the message at position i (counted from 0) has id i, in every state,
\* and a step never removes a message or changes the id of one in the list.
C2_IdsGapFree == [](IdsArePositions) /\ [][IdsKept]_vars

C2_Witness ==
    /\ Len(messages) = 4
    /\ \E i \in 1..Len(turns) : turns[i].end = "error"

AcceptsSend ==
    \A userInput \in UserInputs :
        Join(userInput, " ") # "" =>
            ENABLED (SendMessage(userInput) /\ sendErr' = ErrNil
                         /\ UNCHANGED <<resp, srvVars, emVars, extVars>>)

\* C3: a conversation whose status is changing gets back to stable with no
\* background send left, and a stable conversation accepts a non-empty send.
C3_NeverStuck ==
    /\ (status = ConversationStatusChanging)
           ~> (status = ConversationStatusStable /\ tasks = {})
    /\ [](status = ConversationStatusStable /\ Len(messages) < MaxMessages
            => AcceptsSend)

C3_Witness ==
    /\ status = ConversationStatusStable
    /\ \E i \in 1..Len(turns) : turns[i].end = "error"
    /\ \E i \in 1..Len(turns) : turns[i].end = "reply"

AcceptedSendReturns ==
    \A userInput \in UserInputs :
        (SendMessage(userInput) /\ sendErr' = ErrNil) =>
            /\ status' = ConversationStatusChanging
            /\ Len(messages') = Len(messages) + 1
            /\ Last(messages').Role = ConversationRoleUser
            /\ Last(messages').Message = Join(userInput, " ")
            /\ \E t \in tasks' \ tasks :
                   t.phase = "spawned" /\ t.content = Join(userInput, " ")
            /\ requests' = requests

AgentAppendedByTask ==
    (Len(messages') > Len(messages)
        /\ Last(messages').Role = ConversationRoleAgent) => AsyncSucceed

\* C4: an accepted SendMessage returns with the status changing, the user's
\* message last in the list, one background task started and no request made
\* yet; an agent message is appended only by the background task's success.
C4_ReturnsAtDispatch == [][AcceptedSendReturns /\ AgentAppendedByTask]_vars

C4_Witness ==
    /\ sendErr = ErrNil
    /\ status = ConversationStatusChanging
    /\ \E t \in tasks : t.phase = "spawned"
    /\ Last(messages).Role = ConversationRoleUser

\* C5: when the backend request of an accepted send fails, an agent message
\* describing the error is appended, the status becomes stable and no further
\* request is made.
C5_FailureRecorded ==
    [][ AsyncFail =>
          /\ Len(messages') = Len(messages) + 1
          /\ Last(messages').Role = ConversationRoleAgent
          /\ status' = ConversationStatusStable
          /\ requests' = requests ]_vars

AllReplied == \A i \in 1..Len(turns) : turns[i].end = "reply"

\* C7: when k sends were accepted, each answered by the backend before the
\* next, the list holds 2k messages: the i-th input as a user message, then
\* the backend's reply to it as an agent message.
C7_Alternating ==
    (status = ConversationStatusStable /\ AllReplied) =>
        /\ Len(messages) = 2 * Len(turns)
        /\ \A i \in 1..Len(turns) :
               /\ messages[2 * i - 1].Role = ConversationRoleUser
               /\ messages[2 * i - 1].Message = Join(turns[i].input, " ")
               /\ messages[2 * i].Role = ConversationRoleAgent
               /\ messages[2 * i].Message = formatMessageParts(turns[i].reply)

C7_Witness ==
    /\ status = ConversationStatusStable
    /\ AllReplied
    /\ Len(turns) = 2
    /\ turns[1].reply = <<"x", "y">>
    /\ turns[2].input = <<"a", "b">>

\* C10: a POST /message of type raw is rejected and changes neither the
\* message list nor the status.
C10_RawRejected ==
    [][ \A content \in Contents :
            createMessage(MessageTypeRaw, content) =>
                /\ resp'.ok = FALSE
                /\ UNCHANGED <<messages, status>> ]_vars

ChatFailureStep ==
    /\ SendMessageAfterChat
    /\ \E p \in Procs : pc[p] = "oc_lock3" /\ local[p].err # ErrNil

FailureStep == ChatFailureStep \/ SendMessageFetchFails

ErrorRecorded ==
    /\ Len(ocMessages') = Len(ocMessages) + 1
    /\ Last(ocMessages').Role = ConversationRoleAgent
    /\ Last(ocMessages').Message \in
           { "Error: chat failed", "Error getting response: fetch failed" }
    /\ Last(ocMessages).Role = ConversationRoleUser
    /\ \E p \in Procs : /\ pc[p] # "idle" /\ pc'[p] = "idle"
                        /\ Last(ocMessages).Message = req[p].content
    /\ ocStatus' = ConversationStatusStable

C8_BusyPostRejected ==
    (hresp.op = "createMessage" /\ hresp.kind = "post_user" /\ hresp.busy)
        => (hresp.err # ErrNil /\ hresp.appended = 0)

TurnAtBackend == \E q \in Procs : pc[q] \in { "oc_chat", "oc_fetch" }

\* C9: while a turn waits for the backend, a pending read gets the lock it
\* waits for, and a status read that arrived during a turn returns running.
C9_ReadsNeverWait ==
    /\ TurnAtBackend =>
           \A p \in Procs :
               /\ pc[p] \in { "gs_rlock", "gm_rlock" } => CanRLockServer
               /\ pc[p] \in { "gs_oc_rlock", "gm_oc_rlock", "ds_rlock" }
                      => CanRLockClient
    /\ (hresp.kind \in { "get_status", "oc_status" } /\ hresp.busy)
           => hresp.status \in { "running", ConversationStatusChanging }

RECURSIVE CountRole(_, _)
CountRole(msgs, role) ==
    IF msgs = <<>> THEN 0
    ELSE (IF Head(msgs).Role = role THEN 1 ELSE 0) + CountRole(Tail(msgs), role)

InSendMessage(p) ==
    pc[p] \in { "oc_lock1", "oc_rlock", "oc_lock2", "oc_chat", "oc_lock3", "oc_fetch" }

\* C11: when no SendMessage is running, the list holds, besides the initial
\* session message, at most as many agent messages as user messages: a turn
\* adds one user message and at most one agent message.
C11_OneAgentMessagePerTurn ==
    (opencodeClient /\ \A p \in Procs : ~InSendMessage(p)) =>
        CountRole(ocMessages, ConversationRoleAgent) - 1
            <= CountRole(ocMessages, ConversationRoleUser)

\* C12: under concurrent calls of SendMessage on one OpencodeClient the ids
\* in the message list are strictly increasing in list order, so no two
\* messages share an id.
C12_IdsIncreasing ==
    \A i, j \in 1..Len(ocMessages) : i < j => ocMessages[i].Id < ocMessages[j].Id

AllEmpty(userInput) == \A i \in 1..Len(userInput) : userInput[i] = ""

\* C15: a SendMessage on a stable conversation whose input parts are all
\* empty strings (zero, one or several parts) returns the empty-content error,
\* leaves status and messages as they were and starts no background send.
C15_EmptyRejected ==
    [][ \A userInput \in UserInputs :
            (AllEmpty(userInput) /\ ~IsBusy /\ SendMessage(userInput))
                => /\ sendErr' = ErrEmpty
                   /\ UNCHANGED <<messages, status, tasks, requests>> ]_vars

IsPrefix(a, b) == Len(a) <= Len(b) /\ SubSeq(b, 1, Len(a)) = a

\* C14: every step of the Conversation and of the OpencodeClient leaves the
\* messages the list held where they were, with their id, role and content,
\* and at most adds messages behind them; so the list of a state is a prefix
\* of the list of every later state.
C14_AppendOnly ==
    [][ /\ IsPrefix(messages, messages')
        /\ IsPrefix(ocMessages, ocMessages') ]_vars

C14_Witness ==
    /\ opencodeClient
    /\ \A p \in Procs : ~InSendMessage(p)
    /\ Len(ocMessages) >= 5
    /\ CountRole(ocMessages, ConversationRoleUser) = 2
    /\ \E i \in 1..Len(ocMessages) : ocMessages[i].Role = ConversationRoleAgent
                                         /\ ocMessages[i].Id > 1

\* An accepted SendMessage, and the end of the turn it began.
AcceptedSend ==
    \E userInput \in UserInputs : SendMessage(userInput) /\ sendErr' = ErrNil

RejectedSend ==
    \E userInput \in UserInputs : SendMessage(userInput) /\ sendErr' # ErrNil

TurnEnds ==
    \E t \in tasks :
        /\ t.n = Len(turns)
        /\ t.phase = "requested"
        /\ AsyncError(t) \/ \E parts \in ReplyParts : AsyncReply(t, parts)

\* C13: the status changes only from stable to changing, in an accepted
\* SendMessage, and from changing to stable, when the background send of that
\* turn ends; a rejected SendMessage, the start of the snapshot loop and the
\* polling loop's calls of Status, Messages and Screen leave it as it is.
C13_StatusTransitions ==
    [][ /\ status' # status =>
              \/ /\ status = ConversationStatusStable
                 /\ status' = ConversationStatusChanging
                 /\ AcceptedSend
              \/ /\ status = ConversationStatusChanging
                 /\ status' = ConversationStatusStable
                 /\ TurnEnds
        /\ (RejectedSend \/ loop' # loop) => status' = status ]_vars

C13_Witness ==
    /\ status = ConversationStatusStable
    /\ Len(turns) = 1
    /\ turns[1].end = "reply"
    /\ sendErr = ErrBusy
    /\ emitter.status = ConversationStatusStable
    /\ emitter.messages = messages

\* C16: Subscribe's batch is one status_change with the emitter's status, one
\* message_update for each of its messages in order, and the screen; when the
\* handler turns to its queue, the client holds that status and those
\* messages in that order, and no event has left the queue before.
C16_ReplayBeforeLive ==
    [][ \A s \in Subscribers :
          /\ (handler[s].state = "none" /\ handler'[s].state = "replay") =>
                LET b == handler'[s].batch IN
                /\ Len(b) = Len(emitter.messages) + 2
                /\ b[1] = [type |-> EventTypeStatusChange,
                           payload |-> [status |-> emitter.status]]
                /\ \A i \in 1..Len(emitter.messages) :
                       b[i + 1] = [type |-> EventTypeMessageUpdate,
                                   payload |-> emitter.messages[i]]
                /\ b[Len(b)].type = EventTypeScreenUpdate
                /\ chans'[s] = <<>>
          /\ (s = Watched /\ handler[s].state = "replay"
                 /\ handler'[s].state = "live") =>
                LET b == handler[s].batch IN
                /\ watcher'.view.status = b[1].payload.status
                /\ watcher'.view.messages =
                       [i \in 1..(Len(b) - 2) |-> b[i + 1].payload]
                /\ watcher'.lastLive = NoClient.lastLive
                /\ chans'[s] = chans[s]
          /\ (s \in DOMAIN chans /\ s \in DOMAIN chans'
                 /\ Len(chans'[s]) < Len(chans[s])) =>
                handler[s].state = "live"
          /\ (s = Watched /\ watcher'.view # watcher.view) =>
                handler[s].state \in { "replay", "live" } ]_vars

C16_Witness ==
    /\ handler[Watched].state = "live"
    /\ Len(watcher.view.messages) = 2
    /\ watcher.lastLive.message_update = {}
    /\ watcher.lastLive.status_change = { [status |-> ConversationStatusStable] }

Rank(type) ==
    CASE type = EventTypeStatusChange -> 1
      [] type = EventTypeMessageUpdate -> 2
      [] type = EventTypeScreenUpdate -> 3

\* What a step adds to the queue of s and to the log of the tick.
Enqueued(s) == SubSeq(chans'[s], Len(chans[s]) + 1, Len(chans'[s]))
OfferedTypes ==
    IF loop = "status" THEN tickLog'
    ELSE SubSeq(tickLog', Len(tickLog) + 1, Len(tickLog'))

TickStep == loop # "off" /\ loop' # loop

Received(ev) ==
    /\ handler[Watched].state = "live"
    /\ handler'[Watched].state = "live"
    /\ chans[Watched] # <<>>
    /\ chans'[Watched] = Tail(chans[Watched])
    /\ ev = Head(chans[Watched])
    /\ ev.type # EventTypeScreenUpdate

\* A call of the loop that observes what was broadcast last.
ObservesNoChange ==
    \/ loop = "status" /\ status = emitter.status
    \/ loop = "messages" /\ messages = emitter.messages
    \/ loop = "screen" /\ Screen = emitter.screen

QuietWhenUnchanged ==
    (TickStep /\ ObservesNoChange) => (chans' = chans /\ emitter' = emitter)

\* C18 as stated: a call of the loop that observes what was broadcast last
\* enqueues nothing, and a client never gets a live event whose payload is
\* that of the last live event of the same type it got.
C18_NoRepeatReceived ==
    [][ /\ QuietWhenUnchanged
        /\ \A s \in DOMAIN chans : \A i \in 1..Len(chans[s]) :
               Received(chans[s][i]) =>
                   chans[s][i].payload \notin watcher.lastLive[chans[s][i].type]
      ]_vars

\* C18 as amended: a call of the loop that observes what was broadcast last
\* enqueues nothing, and a client for which no event was dropped never gets a
\* live event whose payload is that of the last live event of the same type
\* it got.
C18_NoRepeatUnlessDropped ==
    [][ /\ QuietWhenUnchanged
        /\ \A s \in DOMAIN chans : \A i \in 1..Len(chans[s]) :
               (Received(chans[s][i]) /\ watcher.dropped = "no") =>
                   chans[s][i].payload \notin watcher.lastLive[chans[s][i].type]
      ]_vars

C18_Witness ==
    /\ handler[Watched].state = "live"
    /\ watcher.dropped = "no"
    /\ watcher.lastLive.status_change = { [status |-> ConversationStatusStable] }
    /\ watcher.lastLive.message_update # {}
    /\ loop = "status"
    /\ emitter.status = status /\ emitter.messages = messages

Min(a, b) == IF a < b THEN a ELSE b

\* The events a call of the loop offers, from what it observes.
TickEvents ==
    CASE loop = "status" -> StatusChanges(emitter, status)
      [] loop = "messages" -> MessageChanges(emitter.messages, messages)
      [] loop = "screen" -> ScreenChanges(emitter, Screen)
      [] OTHER -> <<>>

\* C19: a call of the loop never waits: it gives each subscriber as many of
\* its events as the subscriber's queue has room for, whatever the other
\* queues hold, drops the rest for that subscriber, and records what it
\* observed as broadcast; and the running loop can always take its next call.
C19_NeverBlocks ==
    /\ [](loop # "off" => ENABLED (TickStatus \/ TickMessages \/ TickScreen))
    /\ [][ TickStep =>
             /\ \A s \in DOMAIN chans :
                    chans'[s] = chans[s] \o
                        SubSeq(TickEvents, 1,
                               Min(Len(TickEvents), QueueCap - Len(chans[s])))
             /\ emitter'.status = IF loop = "status" THEN status ELSE emitter.status
             /\ emitter'.messages =
                    IF loop = "messages" THEN messages ELSE emitter.messages
           ]_vars

C19_Witness ==
    /\ DOMAIN chans = Subscribers
    /\ watcher.dropped = "dropped"
    /\ Len(chans[Watched]) = QueueCap
    /\ \E s \in Subscribers \ {Watched} :
           /\ chans[s] # <<>>
           /\ chans[s][Len(chans[s])].type = EventTypeMessageUpdate
           /\ chans[Watched][Len(chans[Watched])].type = EventTypeStatusChange
    /\ loop = "screen"
    /\ emitter.messages = messages

\* C20: once an event was dropped for a client and the client has got every
\* event enqueued for it since, it holds the status and the messages the
\* emitter broadcast last.
C20_SelfHealing ==
    (handler[Watched].state = "live" /\ watcher.dropped = "enqueued"
        /\ chans[Watched] = <<>>) =>
            /\ watcher.view.status = emitter.status
            /\ watcher.view.messages = emitter.messages

\* C21: a client of /events was sent no screen_update, in the replay or
\* after it, and a client of /internal/screen was sent nothing but
\* screen_update events.
C21_StreamsFiltered ==
    /\ EventTypeScreenUpdate \notin sent[Watched]
    /\ \A s \in ScreenSubscribers : sent[s] \subseteq { EventTypeScreenUpdate }

C21_Witness ==
    /\ sent[Watched] = { EventTypeStatusChange, EventTypeMessageUpdate }
    /\ \E s \in ScreenSubscribers :
           /\ sent[s] = { EventTypeScreenUpdate }
           /\ handler[s].state = "live"
    /\ emitter.screen = Screen
    /\ handler[Watched].state = "live"

\* A handler ends in this step.
Ends(s) == handler[s].state \in { "replay", "live" } /\ handler'[s].state = "done"

CallerWrites == ret.held /\ ~ret.mutated /\ ret'.mutated

\* C24: when a caller writes an element of the list Messages() gave it,
\* appends to it or truncates it, the list of the Conversation and the list
\* of the OpencodeClient stay as they are, and a call of Messages() returns
\* the owner's list whatever callers did before.
C24_DefensiveCopy ==
    [][ /\ CallerWrites => (messages' = messages /\ ocMessages' = ocMessages)
        /\ (ret'.held /\ ~ret'.mutated /\ ret' # ret) =>
               ret'.list = (IF ret'.owner = "conversation" THEN messages
                            ELSE ocMessages) ]_vars

C24_Witness ==
    /\ ret.held /\ ret.mutated
    /\ ret.owner = "conversation"
    /\ Len(ret.list) = 1
    /\ ret.list[1] = Scribble
    /\ Len(messages) = 2
    /\ messages[2].Role = ConversationRoleAgent

\* C25: on the Server that has no opencode client, a POST /message of type
\* user is answered with the error that the client is unavailable, GET
\* /status with stable and GET /messages with the empty list; no request
\* changes the state behind the handlers; and the polling loop broadcasts
\* nothing and enqueues nothing, whoever subscribed.
C25_DegradedServer ==
    ~opencodeClient =>
        /\ (hresp.op = "createMessage" /\ hresp.kind = "post_user")
               => hresp.err = ErrUnavailable
        /\ hresp.op = "getStatus" => hresp.status = "stable"
        /\ hresp.op = "getMessages" => hresp.messages = <<>>
        /\ ocMessages = <<>> /\ ocStatus = ConversationStatusStable
        /\ session = <<>> /\ messages = <<>>
        /\ emitter = NewEventEmitter
        /\ tickLog = <<>>
        /\ \A s \in DOMAIN chans : chans[s] = <<>>

C25_Witness ==
    /\ ~opencodeClient
    /\ loop = "sleep"
    /\ hresp.op = "createMessage" /\ hresp.kind = "post_user"
    /\ posts = MaxPosts
    /\ handler[Watched].state = "live"
    /\ \A p \in Procs : pc[p] \in { "gs_oc_rlock", "gm_oc_rlock" }

PollStep ==
    /\ tracker' # tracker
    /\ UserMessages(tracker'.messages) = UserMessages(tracker.messages)
    /\ tracker'.queued = tracker.queued

ScreenUnchanged == tracker.last = Snapshot(agentio)

\* C27: the tracker's poll makes the status stable only from changing, only
\* on a screen equal to the last observed one and only when the stability
\* window has passed since the last observed change; that step changes
\* nothing but the status, and a poll of an unchanged screen in any other
\* state changes nothing at all, so the transition is not made again.
C27_StableOnce ==
    [][ PollStep =>
          /\ ScreenUnchanged =>
               /\ tracker.status = ConversationStatusChanging
               /\ now - tracker.lastChange >= ScreenStabilityLength
               /\ tracker' = [tracker EXCEPT
                                !.status = ConversationStatusStable]
          /\ tracker'.status # tracker.status =>
               /\ ScreenUnchanged
               /\ tracker'.status = ConversationStatusStable
               /\ now - tracker.lastChange >= ScreenStabilityLength
      ]_vars

\* A turn whose write went through and whose screen changed after the send
\* has been made stable by a poll.
C27_Witness ==
    /\ tracker.status = ConversationStatusStable
    /\ UserMessages(tracker.messages) # <<>>
    /\ tracker.queued = 0
    /\ tracker.written = Len(UserMessages(tracker.messages))
    /\ ScreenUnchanged
    /\ tracker.last # tracker.baseline
    /\ tracker.lastChange > 0
    /\ now - tracker.lastChange >= ScreenStabilityLength

\* The agent messages at the end of the list, after the last user message.
RECURSIVE TrailingAgentMessages(_)
TrailingAgentMessages(msgs) ==
    IF msgs = <<>> \/ msgs[Len(msgs)].Role = ConversationRoleUser THEN 0
    ELSE 1 + TrailingAgentMessages(SubSeq(msgs, 1, Len(msgs) - 1))

\* C28: once a send has taken a baseline, a poll that sees a changed screen
\* whose stripped diff is not empty makes that diff the content of the
\* turn's agent message: it appends the message when the list ends with the
\* user message and overwrites the last message otherwise; no state has two
\* agent messages after the last user message.
C28_TurnMessage ==
    /\ [](tracker.baseline.taken =>
            TrailingAgentMessages(tracker.messages) <= 1)
    /\ [][ ( /\ PollStep
             /\ ~ScreenUnchanged
             /\ tracker.baseline.taken
             /\ formatMessage(DiffRegion(tracker.baseline.text, agentio),
                              LastUserMessage(tracker.messages)) # "" )
           =>
           LET msgs == tracker.messages
               text == formatMessage(
                          DiffRegion(tracker.baseline.text, agentio),
                          LastUserMessage(tracker.messages))
           IN  IF msgs[Len(msgs)].Role = ConversationRoleUser
               THEN tracker'.messages =
                      msgs \o << [Id |-> Len(msgs),
                                  Role |-> ConversationRoleAgent,
                                  Message |-> text] >>
               ELSE /\ Len(tracker'.messages) = Len(msgs)
                    /\ \A i \in 1..(Len(msgs) - 1) :
                          tracker'.messages[i] = msgs[i]
                    /\ tracker'.messages[Len(msgs)] =
                          [Id |-> msgs[Len(msgs)].Id,
                           Role |-> ConversationRoleAgent,
                           Message |-> text]
         ]_vars

\* The banner, the user's "a" sent at the first prompt, and the reply "x" as
\* the one agent message of the turn, the echo and the prompt stripped.
C28_Witness ==
    /\ tracker.baseline = Snapshot("W\n> ")
    /\ agentio = "W\n> a\nx\n> "
    /\ Len(tracker.messages) = 3
    /\ tracker.messages[1].Message = "W"
    /\ tracker.messages[2].Role = ConversationRoleUser
    /\ tracker.messages[3] =
         [Id |-> 2, Role |-> ConversationRoleAgent, Message |-> "x"]

\* C29 as stated: before the first send, a poll that sees a changed,
\* non-empty screen leaves that screen itself, whole, as the one message.
C29_WholeScreenVerbatim ==
    [][ ( /\ PollStep
          /\ ~ScreenUnchanged
          /\ ~tracker.baseline.taken
          /\ agentio # "" )
        =>
        tracker'.messages = << [Id |-> 0,
                                Role |-> ConversationRoleAgent,
                                Message |-> agentio] >>
      ]_vars

\* C29: before the first send the list holds at most one message, an agent
\* message with id 0, and no baseline is taken; a poll that sees a changed
\* screen then derives the message from the whole screen with its chrome
\* stripped, whatever the list held: when that text is not empty it is the
\* one message of the list, created or overwritten.
C29_InitialMessage ==
    /\ [](~tracker.baseline.taken =>
            /\ UserMessages(tracker.messages) = <<>>
            /\ Len(tracker.messages) <= 1
            /\ \A i \in 1..Len(tracker.messages) :
                  /\ tracker.messages[i].Id = 0
                  /\ tracker.messages[i].Role = ConversationRoleAgent)
    /\ [](UserMessages(tracker.messages) = <<>> => ~tracker.baseline.taken)
    /\ [][ ( /\ PollStep
             /\ ~ScreenUnchanged
             /\ ~tracker.baseline.taken )
           =>
           LET text == formatMessage(agentio, "") IN
           /\ ~tracker'.baseline.taken
           /\ tracker'.messages =
                IF text = "" THEN tracker.messages
                ELSE << [Id |-> 0,
                         Role |-> ConversationRoleAgent,
                         Message |-> text] >>
         ]_vars

\* The banner over the first prompt, polled before any send: the one message
\* is the banner.
C29_Witness ==
    /\ ~tracker.baseline.taken
    /\ agentio = "W\n> "
    /\ tracker.last = Snapshot(agentio)
    /\ tracker.messages =
         << [Id |-> 0, Role |-> ConversationRoleAgent, Message |-> "W"] >>

\* The last poll saw the screen as it is now, grown since the baseline.
Polled ==
    /\ tracker.last = Snapshot(agentio)
    /\ tracker.last # tracker.baseline

\* The content of the turn's agent message, "" when there is none.
AgentText ==
    IF Len(tracker.messages) = 2 THEN tracker.messages[2].Message ELSE ""

IsChrome(line) == IsPromptMarker(line) \/ IsSeparator(line)

C31_AtomicToReaders ==
    \A p \in Procs :
        (InSendMessage(p) /\ ocStatus = ConversationStatusChanging
                          /\ CanRLockClient)
        => local[p].appended >= 1

\* C32: a Conversation never has two sendMessageAsync goroutines at once, its
\* status is changing exactly while it has one, and a call of SendMessage is
\* accepted only when the status is stable and none is running: of the calls
\* that race from a stable state the first to get the lock is accepted and
\* the others return the busy error.
C32_OneTaskInFlight ==
    /\ [](/\ Cardinality(tasks) <= 1
          /\ status = ConversationStatusChanging <=> Cardinality(tasks) = 1)
    /\ [][ Len(turns') > Len(turns) =>
             /\ status = ConversationStatusStable /\ tasks = {}
             /\ Len(turns') = Len(turns) + 1
             /\ Cardinality(tasks') = 1
         ]_vars
    /\ [][ (status = ConversationStatusChanging /\ sendErr' # sendErr) =>
             /\ sendErr' = ErrBusy
             /\ UNCHANGED <<messages, status, tasks, turns>>
         ]_vars

\* A turn is in flight and a second call has just been turned away.
C32_Witness ==
    /\ status = ConversationStatusChanging
    /\ Cardinality(tasks) = 1
    /\ Len(turns) = 1
    /\ sendErr = ErrBusy

\* C33: in the list of a Conversation the message before an agent message is
\* a user message, and while the status is changing the last message is the
\* user message of the goroutine that is running.
C33_AgentFollowsUser ==
    /\ \A i \in 1..Len(messages) :
          messages[i].Role = ConversationRoleAgent =>
             /\ i > 1
             /\ messages[i - 1].Role = ConversationRoleUser
    /\ status = ConversationStatusChanging =>
          /\ messages # <<>>
          /\ Last(messages).Role = ConversationRoleUser
          /\ \A t \in tasks : Last(messages).Message = t.content

\* A turn that was answered, and the next one in flight.
C33_Witness ==
    /\ Len(messages) = 3
    /\ messages[2].Role = ConversationRoleAgent
    /\ status = ConversationStatusChanging
    /\ tasks # {}

\* C34: behind createMessage at most one goroutine is inside
\* OpencodeClient.SendMessage, whatever requests arrive; the ids of the list
\* are strictly increasing in list order, and the status is stable whenever
\* no goroutine is inside SendMessage.
C34_SendsSerialized ==
    /\ \A p, q \in Procs : (InSendMessage(p) /\ InSendMessage(q)) => p = q
    /\ \A p \in Procs : InSendMessage(p) => smu.w = p
    /\ \A i \in 1..(Len(ocMessages) - 1) :
          ocMessages[i].Id < ocMessages[i + 1].Id
    /\ (\A p \in Procs : ~InSendMessage(p)) =>
          ocStatus = ConversationStatusStable

\* One POST /message waits for the backend, its user message in the list,
\* and the other waits for Server.mu.
C34_Witness ==
    /\ \E p, q \in Procs : pc[p] = "oc_chat" /\ pc[q] = "cm_lock"
    /\ Len(ocMessages) = 2
    /\ ocStatus = ConversationStatusChanging

\* C35: whatever requests arrive and however their goroutines interleave on
\* Server.mu and OpencodeClient.mu, every request that was received returns:
\* GET /status, GET /messages, POST /message and the Status call the polling
\* loop makes.
C35_DeadlockFree ==
    \A p \in Procs : (pc[p] # "idle") ~> (pc[p] = "idle")

\* A GET /status waits for Server.mu while the POST that holds it keeps
\* OpencodeClient.mu over Session.Messages, and nothing else can run.
C35_Witness ==
    \E p, q \in Procs :
        /\ pc[p] = "oc_fetch" /\ smu.w = p /\ ocmu = p
        /\ pc[q] = "gs_rlock"

\* C36: every message of the conversation reaches, as a message_update with
\* its content, the /events client that stays connected and keeps emptying
\* its queue, when the polling loop keeps running.
C36_EventuallyDelivered ==
    \A i \in 1..MaxWatched :
        (Len(messages) >= i /\ handler[Watched].state \in { "replay", "live" })
            ~> \/ handler[Watched].state = "done"
               \/ /\ Len(messages) >= i
                  /\ \E j \in 1..Len(watcher.view.messages) :
                        watcher.view.messages[j] = messages[i]

\* C37: the watched /events client that has seen a turn begin (status
\* changing) and loses no event does not get the status_change to stable
\* while the agent's reply to the last user message it holds, a reply that
\* the conversation has, is still missing from what it received.
C37_ReplyBeforeStable ==
    [][(/\ handler[Watched].state = "live"
        /\ watcher.dropped = "no"
        /\ watcher.view.status = ConversationStatusChanging
        /\ watcher'.view.status = ConversationStatusStable)
       => LET v == watcher.view.messages IN
          /\ v # <<>>
          /\ v[Len(v)].Role = ConversationRoleUser =>
                ~ \E i \in 1..(Len(messages) - 1) :
                      /\ messages[i] = v[Len(v)]
                      /\ messages[i + 1].Role = ConversationRoleAgent]_vars

\* C38: when Start returns the error of a server that did not become ready,
\* the process it started has exited; a Stop that went on to the process
\* returns nil only with the process exited, having seen cmd.Wait return or
\* having killed it; and Stop on a Service whose Start was never called
\* changes nothing and returns nil.
C38_Lifecycle ==
    /\ []((~service.mock /\ service.startRet \in { "notready", "ctx" })
              => service.proc = "exited")
    /\ [][/\ (/\ service.pc \in { "stop_select", "stop_kill" }
              /\ service'.pc = "idle"
              /\ service'.stopRet = "nil")
                 => /\ service'.proc = "exited"
                    /\ service.pc = "stop_kill" \/ service.proc = "exited"
          /\ (/\ service.pc = "idle" /\ service.cmd = "nil"
              /\ service'.stops # service.stops)
                 => service' = [service EXCEPT !.stops = @ + 1,
                                               !.stopRet = "nil"]]_vars

C38_Witness ==
    /\ ~service.mock /\ service.pc = "idle"
    /\ service.startRet = "notready"
    /\ service.killed /\ service.proc = "exited"
    /\ service.stops = 1 /\ service.stopRet = "nil"

\* C39: WaitForReady returns: nil at once when a probe succeeds and never
\* without one, the context's error when the context is done at the select
\* between two probes, the not-ready error when the deadline has passed at
\* the test of the loop.
C39_WaitForReadyReturns ==
    /\ [](/\ service.waitErr = "nil" => service.probed
          /\ service.waitErr = "ctx" => service.ctx
          /\ service.waitErr = "notready" => service.clock >= MaxWait)
    /\ [][/\ (service'.probed /\ ~service.probed) => service'.waitErr = "nil"
          /\ (/\ service.pc = "wait_select" /\ service'.pc # "wait_select"
              /\ service.ctx) => service'.waitErr = "ctx"
          /\ (/\ service.pc = "wait_check" /\ service'.pc # "wait_check"
              /\ service.clock >= MaxWait) => service'.waitErr = "notready"]_vars
    /\ (service.pc \in { "wait_check", "wait_select" })
          ~> (service.waitErr # "none")

C39_Witness ==
    /\ service.waitErr = "nil" /\ service.probed
    /\ service.clock > 0 /\ service.startRet = "nil"

====
